---- MODULE Spec2Model ----
(***************************************************************************)
(* mio-mongo: the relation-resolving query planner (exports.find and       *)
(* exports.findOne of lib/mio-mongo.js) and the store access gateway       *)
(* (mongoExec), as state machines.                                         *)
(*                                                                         *)
(* Planner schema (that of the "filters by relation" tests): a primary     *)
(* entity P with one relation `a` to T, and T with one relation `b` to U.  *)
(* The relation types are inputs.  Every document carries the same field   *)
(* set; a field an entity does not have holds Undefined.                   *)
(***************************************************************************)
EXTENDS Naturals, Sequences, FiniteSets, TLC

VARIABLES
    method,       \* "find" | "findOne": the hook that was invoked
    relAType,     \* type of P's relation a  (schema)
    relBType,     \* type of T's relation b  (schema)
    where,        \* query.where(): sequence of entries, in key order
    withRelated,  \* query.withRelated(): sequence of include entries
    withCount,    \* query.withCount
    pc,           \* "idle" | "run" | "wait" | "count" | "done" | "threw"
    ops,          \* the waterfall's operation list
    ip,           \* index in ops of the operation to run (or running)
    wrel,         \* wrel[i]: the whereRelation object of where key i
    nwhere,       \* nwhere[i]: the nestedWhere object of where key i
    mongoQuery,   \* the primary predicate
    filter,       \* the value relation operations pass down the waterfall
    cached,       \* cached[relationName]
    value,        \* the value passed down the waterfall after the primary
    calls,        \* every store call issued so far, in order
    held,         \* documents of a find kept while its count is outstanding
    doneArgs,     \* the calls of the completion callback `done`
    gw,           \* the gateway's state (specification SpecGateway)
    plugin        \* the plugin's settings and the resource it is attached to

vars == << method, relAType, relBType, where, withRelated, withCount, pc, ops,
           ip, wrel, nwhere, mongoQuery, filter, cached, value, calls, held,
           doneArgs, gw, plugin >>

plannerVars == << method, relAType, relBType, where, withRelated, withCount,
                  pc, ops, ip, wrel, nwhere, mongoQuery, filter, cached,
                  value, calls, held, doneArgs, plugin >>

----------------------------------------------------------------------------
(* Values.  Every JavaScript value of the model is a string; a number      *)
(* literal is told from a string literal by the kind of the entry holding  *)
(* it.                                                                     *)

Undefined == "undefined"
Null == "null"

RelTypes == {"belongsTo", "hasOne", "hasMany"}

DocFields == {"id", "p_id", "t_id", "u_id", "name"}

Doc(id, p, t, u, n) == [id |-> id, p_id |-> p, t_id |-> t, u_id |-> u, name |-> n]

\* The store's collections, in natural order.
DocsP == << Doc("p1", Undefined, "t1", Undefined, "n1"),
            Doc("p2", Undefined, "t3", Undefined, "n2"),
            Doc("p3", Undefined, Null, Undefined, "n1") >>

DocsT == << Doc("t1", "p1", Undefined, "u1", "tx"),
            Doc("t2", "p1", Undefined, "u2", "ty"),
            Doc("t3", "p2", Undefined, "u1", "tx") >>

DocsU == << Doc("u1", Undefined, "t1", Undefined, "alex"),
            Doc("u2", Undefined, "t2", Undefined, "bob"),
            Doc("u3", Undefined, "t1", Undefined, "alex") >>

Collection(ent) == CASE ent = "P" -> DocsP
                     [] ent = "T" -> DocsT
                     [] OTHER     -> DocsU

----------------------------------------------------------------------------
(* Schema.                                                                 *)

\* Resource.primaryKey of every entity
PrimaryKey == "id"

\* relation.foreignKey of P's relation a: on P for belongsTo, on T otherwise
ForeignKeyA(t) == IF t = "belongsTo" THEN "t_id" ELSE "p_id"

\* relation.foreignKey of T's relation b: on T for belongsTo, on U otherwise
ForeignKeyB(t) == IF t = "belongsTo" THEN "u_id" ELSE "t_id"

\* Resource.attributes[name].relation is set
IsRelationOfP(name) == name = "a"
IsRelationOfT(name) == name = "b"

----------------------------------------------------------------------------
(* Predicate objects.  An object is [def, cl]: def is FALSE for the value  *)
(* undefined, cl is the sequence of its properties in insertion order.  A  *)
(* property is [k, op, v, vs, ik]: k the key (its dot-separated segments), *)
(* op "str" (string v), "num" (number v), "in" ({$in: vs}) or "obj" (the   *)
(* nested object {ik: v}).                                                 *)

Clause(k, op, v, vs, ik) == [k |-> k, op |-> op, v |-> v, vs |-> vs, ik |-> ik]

EmptyObj == [def |-> TRUE, cl |-> << >>]
UndefObj == [def |-> FALSE, cl |-> << >>]

\* index of property k in clause list cl, 0 when absent
RECURSIVE IndexOf(_, _, _)
IndexOf(cl, k, i) ==
    IF i > Len(cl) THEN 0
    ELSE IF cl[i].k = k THEN i
    ELSE IndexOf(cl, k, i + 1)

HasKey(cl, k) == IndexOf(cl, k, 1) # 0

\* delete obj[k]
DeleteKey(cl, k) == SelectSeq(cl, LAMBDA c : c.k # k)

SeqToSet(s) == { s[i] : i \in 1..Len(s) }

RECURSIVE MapField(_, _)
MapField(docs, f) ==
    IF docs = << >> THEN << >>
    ELSE << Head(docs)[f] >> \o MapField(Tail(docs), f)

----------------------------------------------------------------------------
(* unpack(clone(where))[relationName]  (lines 1272-1303, used at 161, 480) *)
(*                                                                         *)
(* unpack visits the keys of the clone in order.  Only a key whose value   *)
(* is a string is split at its dots (typeof obj[key] === 'string'); for    *)
(* such a key obj[head] is first reset to {} and then given the nested     *)
(* tail, so that of several keys with the same head the last one is what   *)
(* obj[head] holds.  A key with a number or an operator object as value    *)
(* stays where it is, under its dotted name.                               *)

\* the where keys unpack splits into obj[rel]
UnpackedKeys(w, rel) ==
    { i \in 1..Len(w) : /\ w[i].kind = "str"
                        /\ Len(w[i].key) >= 2
                        /\ w[i].key[1] = rel }

Max(S) == CHOOSE x \in S : \A y \in S : y <= x

\* the object unpack nests for one key: {f: v} or {n: {f: v}}
Nest(e) ==
    IF Len(e.key) = 2
    THEN [def |-> TRUE,
          cl  |-> << Clause(<< e.key[2] >>, "str", e.v, << >>, "") >>]
    ELSE [def |-> TRUE,
          cl  |-> << Clause(<< e.key[2] >>, "obj", e.v, << >>, e.key[3]) >>]

UnpackRel(w, rel) ==
    IF UnpackedKeys(w, rel) = {} THEN UndefObj
    ELSE Nest(w[Max(UnpackedKeys(w, rel))])

\* whereRelation[nestedName]: the nested object, or undefined
NestedWhereOf(wr, nestedName) ==
    IF HasKey(wr.cl, << nestedName >>) /\ wr.cl[IndexOf(wr.cl, << nestedName >>, 1)].op = "obj"
    THEN [def |-> TRUE,
          cl  |-> << Clause(<< wr.cl[IndexOf(wr.cl, << nestedName >>, 1)].ik >>, "str",
                            wr.cl[IndexOf(wr.cl, << nestedName >>, 1)].v, << >>, "") >>]
    ELSE UndefObj

----------------------------------------------------------------------------
(* $in(docs, obj, key, docKey)  (lines 1305-1318).  The result is          *)
(* [ok, obj]: ok is FALSE when the push throws a TypeError because         *)
(* obj[key] exists and has no $in array.                                   *)

In(docs, obj, key, docKey) ==
    IF ~HasKey(obj.cl, << key >>)
    THEN [ok  |-> TRUE,
          obj |-> [def |-> TRUE,
                   cl  |-> obj.cl \o << Clause(<< key >>, "in", "",
                                               MapField(docs, docKey), "") >>]]
    ELSE IF obj.cl[IndexOf(obj.cl, << key >>, 1)].op = "in"
    THEN [ok  |-> TRUE,
          obj |-> [def |-> TRUE,
                   cl  |-> [obj.cl EXCEPT ![IndexOf(obj.cl, << key >>, 1)].vs =
                                @ \o MapField(docs, docKey)]]]
    ELSE [ok |-> docs = << >>, obj |-> obj]

----------------------------------------------------------------------------
(* prepareQueryOrDocument(query.where(), Resource.attributes) for P        *)
(* (lines 1157-1184).  P declares no alias, objectId or transient          *)
(* attribute, so a property is copied under its own key unless the key     *)
(* names a relation attribute; a dotted key names no attribute and is      *)
(* copied.                                                                 *)

RECURSIVE PrepareQuery(_)
PrepareQuery(w) ==
    IF w = << >> THEN << >>
    ELSE (IF Len(Head(w).key) = 1 /\ IsRelationOfP(Head(w).key[1])
          THEN << >>
          ELSE << Clause(Head(w).key, Head(w).kind, Head(w).v, Head(w).vs, "") >>)
         \o PrepareQuery(Tail(w))

----------------------------------------------------------------------------
(* The store driver: collection.find(query, select).toArray and            *)
(* collection.findOne, over the collections above.                         *)

ValEq(fv, x) == fv = x \/ (fv \in {Null, Undefined} /\ x \in {Null, Undefined})

FieldOf(d, k) == IF Len(k) = 1 /\ k[1] \in DocFields THEN d[k[1]] ELSE Undefined

ClauseMatch(d, c) ==
    CASE c.op = "str" -> FieldOf(d, c.k) = c.v
      [] c.op = "in"  -> \E i \in 1..Len(c.vs) : ValEq(FieldOf(d, c.k), c.vs[i])
      [] OTHER        -> FALSE

Matches(d, q) == q.def => \A i \in 1..Len(q.cl) : ClauseMatch(d, q.cl[i])

\* a projection {f: true, ...}; the empty projection returns whole documents
Project(d, select) ==
    IF select = {} THEN d
    ELSE [f \in DocFields |-> IF f \in select THEN d[f] ELSE Undefined]

RECURSIVE ProjectAll(_, _)
ProjectAll(docs, select) ==
    IF docs = << >> THEN << >>
    ELSE << Project(Head(docs), select) >> \o ProjectAll(Tail(docs), select)

StoreFind(ent, q, select) ==
    ProjectAll(SelectSeq(Collection(ent), LAMBDA d : Matches(d, q)), select)

StoreCount(ent, q) == Len(StoreFind(ent, q, {}))

----------------------------------------------------------------------------
(* Inputs.                                                                 *)

\* the largest number of keys of a where clause
MaxWhere == 2

Entry(key, kind, v, vs) == [key |-> key, kind |-> kind, v |-> v, vs |-> vs]

WhereEntries ==
    { Entry(<< "a", "b", "name" >>, "str", "alex", << >>),
      Entry(<< "a", "b", "name" >>, "str", "zed", << >>),
      Entry(<< "a", "b", "name" >>, "num", "7", << >>),
      Entry(<< "a", "name" >>, "str", "tx", << >>),
      Entry(<< "id" >>, "in", "", << "p1", "p9" >>),
      Entry(<< "id" >>, "str", "p1", << >>),
      Entry(<< "t_id" >>, "in", "", << "t9" >>),
      Entry(<< "name" >>, "str", "n1", << >>) }

\* where clauses: the keys of an object are distinct
Wheres ==
    { w \in UNION { [1..n -> WhereEntries] : n \in 0..MaxWhere } :
        \A i, j \in 1..Len(w) : i # j => w[i].key # w[j].key }

\* includeRelated[name]: the relation's query options {from, size, nested};
\* nested is false, true, or the nested query's own options {from, size}
\* (nfrom, nsize).  A size of 0 stands for "no size given".
Include(name, from, size, nested, nfrom, nsize) ==
    [name |-> name, from |-> from, size |-> size,
     nested |-> nested, nfrom |-> nfrom, nsize |-> nsize]

Includes ==
    { << >> } \cup
    { << Include("a", pg[1], pg[2], FALSE, 0, 0) >> :
        pg \in { << 0, 0 >>, << 0, 1 >>, << 1, 1 >> } } \cup
    { << Include("a", 0, 0, TRUE, pg[1], pg[2]) >> :
        pg \in { << 0, 0 >>, << 0, 1 >>, << 1, 2 >> } }

----------------------------------------------------------------------------
(* The operation list built by find and findOne (lines 143-437, 462-840).  *)

Op(type, w, r) == [type |-> type, w |-> w, r |-> r]

IsRelationKey(e) == IsRelationOfP(e.key[1])

\* nestedRelation: the key has a third segment and its second names a
\* relation of the target
HasNestedRelation(e) == Len(e.key) > 2 /\ IsRelationOfT(e.key[2])

RECURSIVE WhereOps(_, _)
WhereOps(w, i) ==
    IF i > Len(w) THEN << >>
    ELSE (IF IsRelationKey(w[i])
          THEN (IF HasNestedRelation(w[i]) THEN << Op("nested", i, 0) >> ELSE << >>)
               \o << Op("relation", i, 0) >>
          ELSE << >>)
         \o WhereOps(w, i + 1)

RECURSIVE IncludeOps(_, _)
IncludeOps(wr, j) ==
    IF j > Len(wr) THEN << >>
    ELSE << Op("include", 0, j) >>
         \o (IF wr[j].nested THEN << Op("through", 0, j) >> ELSE << >>)
         \o IncludeOps(wr, j + 1)

\* a variant of BuildOps that puts the primary query before the lookups
BuildOpsPrimaryFirst(w, wr) ==
    << Op("start", 0, 0), Op("primary", 0, 0) >> \o WhereOps(w, 1)
        \o IncludeOps(wr, 1)

BuildOps(w, wr) ==
    << Op("start", 0, 0) >> \o WhereOps(w, 1) \o << Op("primary", 0, 0) >>
        \o IncludeOps(wr, 1)

\* whereRelation[nestedName] is read while whereRelation is undefined
\* (lines 164, 484): a TypeError thrown out of find / findOne
BuildThrows(w) ==
    \E i \in 1..Len(w) :
        /\ IsRelationKey(w[i])
        /\ HasNestedRelation(w[i])
        /\ ~UnpackRel(w, w[i].key[1]).def

\* whereRelation of where key i, after `delete whereRelation[nestedName]`
WhereRelationOf(w, i) ==
    IF ~IsRelationKey(w[i]) THEN UndefObj
    ELSE IF HasNestedRelation(w[i])
    THEN [def |-> TRUE, cl |-> DeleteKey(UnpackRel(w, w[i].key[1]).cl, << w[i].key[2] >>)]
    ELSE UnpackRel(w, w[i].key[1])

\* nestedWhere of where key i
NestedWhere(w, i) ==
    IF IsRelationKey(w[i]) /\ HasNestedRelation(w[i])
    THEN NestedWhereOf(UnpackRel(w, w[i].key[1]), w[i].key[2])
    ELSE UndefObj

\* a variant of PrimaryQueryOf that deletes no key
PrimaryQueryKeepAll(w) == [def |-> TRUE, cl |-> PrepareQuery(w)]

\* mongoQuery after `delete mongoQuery[key]; delete mongoQuery[relationName]`
\* for every relation key
PrimaryQueryOf(w) ==
    [def |-> TRUE,
     cl  |-> SelectSeq(PrepareQuery(w),
                       LAMBDA c : ~IsRelationOfP(c.k[1]))]

----------------------------------------------------------------------------
(* Resources.  A primary resource is [doc, a]; its relation slot a is      *)
(* [set, many, docs, hasTotal, total]: unset, one related resource         *)
(* (many = FALSE; docs empty for a resource created from null) or a        *)
(* collection.  A related resource is [doc, b], b its through slot.        *)

NoSlot == [set |-> FALSE, many |-> FALSE, docs |-> << >>, hasTotal |-> FALSE, total |-> 0]

OneSlot(rs) == [set |-> TRUE, many |-> FALSE, docs |-> rs, hasTotal |-> FALSE, total |-> 0]

ManySlot(rs) == [set |-> TRUE, many |-> TRUE, docs |-> rs, hasTotal |-> FALSE, total |-> 0]

Related(d) == [doc |-> d, b |-> NoSlot]

Resource(d) == [doc |-> d, a |-> NoSlot]

\* the value an operation passes on: null, or the primary resource(s), with
\* docs.count when the gateway counted
NullValue == [null |-> TRUE, rs |-> << >>, hasCount |-> FALSE, count |-> 0]

Value(rs) == [null |-> FALSE, rs |-> rs, hasCount |-> FALSE, count |-> 0]

Counted(rs, n) == [null |-> FALSE, rs |-> rs, hasCount |-> TRUE, count |-> n]

\* a store call: collection, verb, pipeline stage, predicate, projection and
\* skip / limit options; status "out" (outstanding), "ok" or "err"
Call(ent, verb, stage, q, select, skip, limit) ==
    [ent |-> ent, verb |-> verb, stage |-> stage, q |-> q, select |-> select,
     skip |-> skip, limit |-> limit, status |-> "out"]

NoCache == [set |-> FALSE, docs |-> << >>]

----------------------------------------------------------------------------
(* The planner.                                                            *)

Init ==
    /\ method \in {"find", "findOne"}
    /\ relAType \in RelTypes
    /\ relBType \in RelTypes
    /\ where \in Wheres
    /\ withRelated \in Includes
    /\ withCount \in BOOLEAN
    /\ pc = "idle"
    /\ ops = << >>
    /\ ip = 0
    /\ wrel = << >>
    /\ nwhere = << >>
    /\ mongoQuery = EmptyObj
    /\ filter = EmptyObj
    /\ cached = NoCache
    /\ value = NullValue
    /\ calls = << >>
    /\ held = << >>
    /\ doneArgs = << >>
    /\ gw = 0
    /\ plugin = 0

\* exports.find / exports.findOne up to async.waterfall(ops, done), which
\* runs the first operation (next(null, {})) at once
Invoke ==
    /\ pc = "idle"
    /\ IF BuildThrows(where)
       THEN /\ pc' = "threw"
            /\ UNCHANGED << ops, ip, wrel, nwhere, mongoQuery, filter >>
       ELSE /\ ops' = BuildOps(where, withRelated)
            /\ wrel' = [i \in 1..Len(where) |-> WhereRelationOf(where, i)]
            /\ nwhere' = [i \in 1..Len(where) |-> NestedWhere(where, i)]
            /\ mongoQuery' = PrimaryQueryOf(where)
            /\ filter' = EmptyObj
            /\ ip' = 2
            /\ pc' = "run"
    /\ UNCHANGED << method, relAType, relBType, where, withRelated, withCount,
                    cached, value, calls, held, doneArgs, gw, plugin >>

\* a variant of Fail that hands the value held so far to done with the error
FailPartial ==
    /\ pc' = "done"
    /\ doneArgs' = Append(doneArgs, [err |-> TRUE, val |-> value, hasVal |-> TRUE])
    /\ calls' = [calls EXCEPT ![Len(calls)].status = "err"]

\* next(err): async.waterfall calls done(err) and runs nothing further
Fail ==
    /\ pc' = "done"
    /\ doneArgs' = Append(doneArgs, [err |-> TRUE, val |-> NullValue, hasVal |-> FALSE])
    /\ calls' = [calls EXCEPT ![Len(calls)].status = "err"]

\* next(null, v) of the running operation: the following operation is
\* scheduled, or done(null, v) is called after the last one
Advance(v) ==
    /\ calls' = IF pc = "run" THEN calls
                ELSE [calls EXCEPT ![Len(calls)].status = "ok"]
    /\ IF ip = Len(ops)
       THEN /\ pc' = "done"
            /\ doneArgs' = Append(doneArgs, [err |-> FALSE, val |-> v, hasVal |-> TRUE])
            /\ ip' = ip
       ELSE /\ pc' = "run"
            /\ doneArgs' = doneArgs
            /\ ip' = ip + 1

\* the projection of a relation-predicate lookup: primary and foreign key
SelectA == {PrimaryKey, ForeignKeyA(relAType)}
SelectB == {PrimaryKey, ForeignKeyB(relBType)}

\* lines 490-511 (find), 171-192 (findOne): the lookup on the nested target
NestedLookup ==
    /\ pc = "run"
    /\ ops[ip].type = "nested"
    /\ calls' = Append(calls, Call("U", "find", "nested", nwhere[ops[ip].w],
                                   SelectB, 0, 0))
    /\ pc' = "wait"
    /\ UNCHANGED << method, relAType, relBType, where, withRelated, withCount,
                    ops, ip, wrel, nwhere, mongoQuery, filter, cached, value,
                    held, doneArgs, gw, plugin >>

\* the $in folded into whereRelation by the nested lookup's callback
NestedFold(docs, wr) ==
    IF relBType = "belongsTo"
    THEN In(docs, wr, ForeignKeyB(relBType), PrimaryKey)
    ELSE In(docs, wr, PrimaryKey, ForeignKeyB(relBType))

NestedLookupReturn ==
    /\ pc = "wait"
    /\ ops[ip].type = "nested"
    /\ \/ /\ Fail
          /\ UNCHANGED << ip, wrel >>
       \/ LET docs == StoreFind("U", nwhere[ops[ip].w], SelectB)
              r    == NestedFold(docs, wrel[ops[ip].w])
          IN  IF r.ok
              THEN /\ wrel' = [wrel EXCEPT ![ops[ip].w] = r.obj]
                   /\ Advance(value)
              ELSE /\ pc' = "threw"
                   /\ calls' = [calls EXCEPT ![Len(calls)].status = "ok"]
                   /\ UNCHANGED << ip, wrel, doneArgs >>
    /\ UNCHANGED << method, relAType, relBType, where, withRelated, withCount,
                    ops, nwhere, mongoQuery, filter, cached, value, held, gw, plugin >>

\* lines 519-541 (find), 200-221 (findOne): the lookup on the target
RelationLookup ==
    /\ pc = "run"
    /\ ops[ip].type = "relation"
    /\ calls' = Append(calls, Call("T", "find", "relation", wrel[ops[ip].w],
                                   SelectA, 0, 0))
    /\ pc' = "wait"
    /\ UNCHANGED << method, relAType, relBType, where, withRelated, withCount,
                    ops, ip, wrel, nwhere, mongoQuery, filter, cached, value,
                    held, doneArgs, gw, plugin >>

\* a variant of RelationFold with the two orientations exchanged
RelationFoldSwapped(docs, f) ==
    IF relAType = "belongsTo"
    THEN In(docs, f, PrimaryKey, ForeignKeyA(relAType))
    ELSE In(docs, f, ForeignKeyA(relAType), PrimaryKey)

\* the $in folded into filter by the relation lookup's callback
RelationFold(docs, f) ==
    IF relAType = "belongsTo"
    THEN In(docs, f, ForeignKeyA(relAType), PrimaryKey)
    ELSE In(docs, f, PrimaryKey, ForeignKeyA(relAType))

RelationLookupReturn ==
    /\ pc = "wait"
    /\ ops[ip].type = "relation"
    /\ \/ /\ Fail
          /\ UNCHANGED << ip, filter, cached >>
       \/ LET docs == StoreFind("T", wrel[ops[ip].w], SelectA)
              r    == RelationFold(docs, filter)
          IN  IF r.ok
              THEN /\ filter' = r.obj
                   /\ cached' = [set |-> TRUE, docs |-> docs]
                   /\ Advance(value)
              ELSE /\ pc' = "threw"
                   /\ calls' = [calls EXCEPT ![Len(calls)].status = "ok"]
                   /\ UNCHANGED << ip, filter, cached, doneArgs >>
    /\ UNCHANGED << method, relAType, relBType, where, withRelated, withCount,
                    ops, wrel, nwhere, mongoQuery, value, held, gw, plugin >>

\* a variant of Merge in which a filter key replaces the caller's own clause
RECURSIVE MergeOverwrite(_, _)
MergeOverwrite(mq, fcl) ==
    IF fcl = << >> THEN [ok |-> TRUE, obj |-> mq]
    ELSE MergeOverwrite([def |-> TRUE,
                         cl  |-> DeleteKey(mq.cl, Head(fcl).k) \o << Head(fcl) >>],
                        Tail(fcl))

(* Lines 550-557 (find), 230-237 (findOne): every key of filter is merged  *)
(* into mongoQuery.  The result is [ok, obj]; ok is FALSE when             *)
(* mongoQuery[key] is a string or number, on which the assignment of $in   *)
(* throws a TypeError in strict mode.                                      *)
RECURSIVE Merge(_, _)
Merge(mq, fcl) ==
    IF fcl = << >> THEN [ok |-> TRUE, obj |-> mq]
    ELSE IF ~HasKey(mq.cl, Head(fcl).k)
    THEN Merge([def |-> TRUE,
                cl  |-> mq.cl \o << Clause(Head(fcl).k, "in", "", Head(fcl).vs, "") >>],
               Tail(fcl))
    ELSE IF mq.cl[IndexOf(mq.cl, Head(fcl).k, 1)].op = "in"
    THEN Merge([def |-> TRUE,
                cl  |-> [mq.cl EXCEPT ![IndexOf(mq.cl, Head(fcl).k, 1)].vs =
                             @ \o Head(fcl).vs]],
               Tail(fcl))
    ELSE [ok |-> FALSE, obj |-> mq]

PrimaryVerb == IF method = "find" THEN "find" ELSE "findOne"

\* lines 546-561 (find), 226-241 (findOne): the primary query is issued
PrimaryQuery ==
    /\ pc = "run"
    /\ ops[ip].type = "primary"
    /\ LET m == Merge(mongoQuery, filter.cl)
       IN  IF m.ok
           THEN /\ mongoQuery' = m.obj
                /\ calls' = Append(calls, Call("P", PrimaryVerb, "primary", m.obj,
                                               {}, 0, 0))
                /\ pc' = "wait"
           ELSE /\ pc' = "threw"
                /\ UNCHANGED << mongoQuery, calls >>
    /\ UNCHANGED << method, relAType, relBType, where, withRelated, withCount,
                    ops, ip, wrel, nwhere, filter, cached, value, held,
                    doneArgs, gw, plugin >>

RECURSIVE Resources(_)
Resources(docs) ==
    IF docs = << >> THEN << >>
    ELSE << Resource(Head(docs)) >> \o Resources(Tail(docs))

\* a variant of PrimaryReturn that asks for the count while the find is
\* still outstanding
PrimaryReturnParallelCount ==
    /\ pc = "wait"
    /\ ops[ip].type = "primary"
    /\ \/ /\ Fail
          /\ UNCHANGED << ip, value, held >>
       \/ LET docs == StoreFind("P", mongoQuery, {})
          IN  IF method = "find"
              THEN IF withCount
                   THEN /\ calls' = Append(calls,
                                           Call("P", "count", "count", mongoQuery,
                                                {}, 0, 0))
                        /\ held' = docs
                        /\ pc' = "count"
                        /\ UNCHANGED << ip, value, doneArgs >>
                   ELSE /\ value' = Value(Resources(docs))
                        /\ Advance(value')
                        /\ UNCHANGED held
              ELSE /\ value' = IF docs = << >> THEN NullValue
                               ELSE Value(<< Resource(Head(docs)) >>)
                   /\ Advance(value')
                   /\ UNCHANGED held
    /\ UNCHANGED << method, relAType, relBType, where, withRelated, withCount,
                    ops, wrel, nwhere, mongoQuery, filter, cached, gw, plugin >>

\* lines 561-572 (find), 241-247 (findOne), and the gateway's toArray
\* callback (1123-1137), which issues the count when withCount is set
PrimaryReturn ==
    /\ pc = "wait"
    /\ ops[ip].type = "primary"
    /\ \/ /\ Fail
          /\ UNCHANGED << ip, value, held >>
       \/ LET docs == StoreFind("P", mongoQuery, {})
          IN  IF method = "find"
              THEN IF withCount
                   THEN /\ calls' = Append([calls EXCEPT ![Len(calls)].status = "ok"],
                                           Call("P", "count", "count", mongoQuery,
                                                {}, 0, 0))
                        /\ held' = docs
                        /\ pc' = "count"
                        /\ UNCHANGED << ip, value, doneArgs >>
                   ELSE /\ value' = Value(Resources(docs))
                        /\ Advance(value')
                        /\ UNCHANGED held
              ELSE /\ value' = IF docs = << >> THEN NullValue
                               ELSE Value(<< Resource(Head(docs)) >>)
                   /\ Advance(value')
                   /\ UNCHANGED held
    /\ UNCHANGED << method, relAType, relBType, where, withRelated, withCount,
                    ops, wrel, nwhere, mongoQuery, filter, cached, gw, plugin >>

\* a variant of CountReturn that passes the documents on without a count
\* when the count fails
CountReturnKeepDocs ==
    /\ pc = "count"
    /\ \/ /\ value' = Value(Resources(held))
          /\ Advance(value')
       \/ /\ value' = Counted(Resources(held), StoreCount("P", mongoQuery))
          /\ Advance(value')
    /\ UNCHANGED << method, relAType, relBType, where, withRelated, withCount,
                    ops, wrel, nwhere, mongoQuery, filter, cached, held, gw, plugin >>

\* lines 1127-1133: the count's callback
CountReturn ==
    /\ pc = "count"
    /\ \/ /\ Fail
          /\ UNCHANGED << ip, value >>
       \/ /\ value' = Counted(Resources(held), StoreCount("P", mongoQuery))
          /\ Advance(value')
    /\ UNCHANGED << method, relAType, relBType, where, withRelated, withCount,
                    ops, wrel, nwhere, mongoQuery, filter, cached, held, gw, plugin >>

----------------------------------------------------------------------------
(* includeRelated.                                                         *)

Min(a, b) == IF a < b THEN a ELSE b

\* Array.prototype.slice(begin, end): the elements at 0-based positions
\* begin .. end-1
Slice(s, begin, end) == SubSeq(s, begin + 1, Min(end, Len(s)))

\* the cursor's skip and limit (lines 1117-1121): applied when truthy
SkipLimit(s, skip, limit) ==
    IF limit = 0 THEN SubSeq(s, skip + 1, Len(s))
    ELSE SubSeq(s, skip + 1, Min(skip + limit, Len(s)))

RECURSIVE RelatedAll(_)
RelatedAll(docs) ==
    IF docs = << >> THEN << >>
    ELSE << Related(Head(docs)) >> \o RelatedAll(Tail(docs))

Falsy(v) == v \in {Null, Undefined}

\* the key of the related collection the relation's query filters on
IncludeKey == IF relAType = "belongsTo" THEN PrimaryKey ELSE ForeignKeyA(relAType)

\* the value of a primary resource that key is compared with
JoinValue(res) ==
    IF relAType = "belongsTo" THEN res.doc[ForeignKeyA(relAType)]
    ELSE res.doc[PrimaryKey]

\* a variant of JoinValues that takes the first resource's value only
JoinValuesFirst(rs) ==
    IF rs = << >> THEN << >>
    ELSE << IF relAType = "belongsTo" THEN Head(rs).doc[ForeignKeyA(relAType)]
            ELSE Head(rs).doc[PrimaryKey] >>

RECURSIVE JoinValues(_)
JoinValues(rs) ==
    IF rs = << >> THEN << >>
    ELSE << JoinValue(Head(rs)) >> \o JoinValues(Tail(rs))

\* lines 592-659: find's operation for one included relation
FindInclude ==
    /\ pc = "run"
    /\ ops[ip].type = "include"
    /\ method = "find"
    /\ IF value.null \/ value.rs = << >>
       THEN /\ value' = NullValue
            /\ Advance(NullValue)
       ELSE IF cached.set
       THEN \* lines 626-648: the cached documents are given to every
            \* resource, then `resource` is read, which no scope declares:
            \* a ReferenceError
            /\ value' = [value EXCEPT !.rs =
                            [i \in 1..Len(value.rs) |->
                                [value.rs[i] EXCEPT !.a = ManySlot(RelatedAll(cached.docs))]]]
            /\ pc' = "threw"
            /\ UNCHANGED << calls, ip, doneArgs >>
       ELSE /\ value' = [value EXCEPT !.rs =
                            [i \in 1..Len(value.rs) |->
                                IF relAType = "hasMany"
                                THEN [value.rs[i] EXCEPT !.a = ManySlot(<< >>)]
                                ELSE value.rs[i]]]
            /\ calls' = Append(calls,
                   Call("T", "find", "include",
                        [def |-> TRUE,
                         cl  |-> << Clause(<< IncludeKey >>, "in", "",
                                           JoinValues(value.rs), "") >>],
                        {}, 0, 0))
            /\ pc' = "wait"
            /\ UNCHANGED << ip, doneArgs >>
    /\ UNCHANGED << method, relAType, relBType, where, withRelated, withCount,
                    ops, wrel, nwhere, mongoQuery, filter, cached, held, gw, plugin >>

\* a returned document belongs to a primary resource
Joins(res, d) ==
    IF relAType = "belongsTo"
    THEN res.doc[ForeignKeyA(relAType)] = d[PrimaryKey]
    ELSE res.doc[PrimaryKey] = d[ForeignKeyA(relAType)]

\* lines 666-689: the slot of one resource after the results are distributed
Stitch(res, results, from, size) ==
    LET mine == SelectSeq(results, LAMBDA d : Joins(res, d))
    IN  IF relAType = "hasMany"
        THEN IF size # 0
             THEN [set |-> TRUE, many |-> TRUE,
                   docs |-> Slice(res.a.docs \o RelatedAll(mine), from, size),
                   hasTotal |-> TRUE,
                   total |-> Len(res.a.docs \o RelatedAll(mine))]
             ELSE [res.a EXCEPT !.docs = @ \o RelatedAll(mine)]
        ELSE IF mine = << >> THEN res.a
             ELSE OneSlot(<< Related(mine[Len(mine)]) >>)

\* lines 660-692: the callback of find's query for an included relation
FindIncludeReturn ==
    /\ pc = "wait"
    /\ ops[ip].type = "include"
    /\ method = "find"
    /\ \/ /\ Fail
          /\ UNCHANGED << ip, value >>
       \/ LET results == StoreFind("T", calls[Len(calls)].q, {})
              opts    == withRelated[ops[ip].r]
          IN  /\ value' = [value EXCEPT !.rs =
                              [i \in 1..Len(value.rs) |->
                                  [value.rs[i] EXCEPT !.a =
                                      Stitch(value.rs[i], results, opts.from, opts.size)]]]
              /\ Advance(value')
    /\ UNCHANGED << method, relAType, relBType, where, withRelated, withCount,
                    ops, wrel, nwhere, mongoQuery, filter, cached, held, gw, plugin >>

\* methods[relation.type] (lines 46-50)
MethodOf(t) == IF t = "hasMany" THEN "find" ELSE "findOne"

\* a variant of FindOneInclude that queries also when no resource was found
FindOneIncludeUnguarded ==
    /\ pc = "run"
    /\ ops[ip].type = "include"
    /\ method = "findOne"
    /\ calls' = Append(calls,
           Call("T", MethodOf(relAType), "include",
                [def |-> TRUE,
                 cl  |-> << Clause(<< IncludeKey >>, "str",
                                   IF value.null THEN Null ELSE JoinValue(value.rs[1]),
                                   << >>, "") >>],
                {}, withRelated[ops[ip].r].from, withRelated[ops[ip].r].size))
    /\ pc' = "wait"
    /\ UNCHANGED << value, ip, doneArgs >>
    /\ UNCHANGED << method, relAType, relBType, where, withRelated, withCount,
                    ops, wrel, nwhere, mongoQuery, filter, cached, held, gw, plugin >>

\* lines 262-321: findOne's operation for one included relation
FindOneInclude ==
    /\ pc = "run"
    /\ ops[ip].type = "include"
    /\ method = "findOne"
    /\ IF value.null
       THEN /\ value' = NullValue
            /\ Advance(NullValue)
       ELSE IF relAType = "belongsTo" /\ Falsy(JoinValue(value.rs[1]))
       THEN /\ value' = value
            /\ Advance(value)
       ELSE IF cached.set
       THEN /\ value' = [value EXCEPT !.rs[1].a = ManySlot(RelatedAll(cached.docs))]
            /\ Advance(value')
       ELSE /\ calls' = Append(calls,
                   Call("T", MethodOf(relAType), "include",
                        [def |-> TRUE,
                         cl  |-> << Clause(<< IncludeKey >>, "str",
                                           JoinValue(value.rs[1]), << >>, "") >>],
                        {}, withRelated[ops[ip].r].from, withRelated[ops[ip].r].size))
            /\ pc' = "wait"
            /\ UNCHANGED << value, ip, doneArgs >>
    /\ UNCHANGED << method, relAType, relBType, where, withRelated, withCount,
                    ops, wrel, nwhere, mongoQuery, filter, cached, held, gw, plugin >>

\* lines 305-320: the callback of findOne's query for an included relation
FindOneIncludeReturn ==
    /\ pc = "wait"
    /\ ops[ip].type = "include"
    /\ method = "findOne"
    /\ \/ /\ Fail
          /\ UNCHANGED << ip, value >>
       \/ LET c    == calls[Len(calls)]
              docs == SkipLimit(StoreFind("T", c.q, {}), c.skip, c.limit)
          IN  /\ value' = [value EXCEPT !.rs[1].a =
                              IF c.verb = "find" THEN ManySlot(RelatedAll(docs))
                              ELSE IF docs = << >> THEN OneSlot(<< >>)
                              ELSE OneSlot(<< Related(Head(docs)) >>)]
              /\ Advance(value')
    /\ UNCHANGED << method, relAType, relBType, where, withRelated, withCount,
                    ops, wrel, nwhere, mongoQuery, filter, cached, held, gw, plugin >>

----------------------------------------------------------------------------
(* Nested (through) relations of an included relation.                     *)

\* the key an intermediary is filed under in `intermediaries`
\* (lines 724-771 of find, 351-372 of findOne)
ThroughKey(res, thr) ==
    CASE relBType = "belongsTo" -> thr.doc[ForeignKeyB(relBType)]
      [] relBType = "hasOne"    -> thr.doc[PrimaryKey]
      [] OTHER                  -> res.doc[PrimaryKey]

\* every intermediary [key, i, j]: related resource j of primary resource i
RECURSIVE RefsOf(_, _, _)
RefsOf(rs, i, j) ==
    IF i > Len(rs) THEN << >>
    ELSE IF j > Len(rs[i].a.docs) THEN RefsOf(rs, i + 1, 1)
    ELSE << [key |-> ThroughKey(rs[i], rs[i].a.docs[j]), i |-> i, j |-> j] >>
         \o RefsOf(rs, i, j + 1)

RECURSIVE KeysOf(_)
KeysOf(refs) ==
    IF refs = << >> THEN << >> ELSE << Head(refs).key >> \o KeysOf(Tail(refs))

\* intermediaries[key]: in find the list of all intermediaries filed under
\* key; in findOne the last one filed under it
Intermediaries(refs, key) ==
    LET all == SelectSeq(refs, LAMBDA r : r.key = key)
    IN  IF method = "find" \/ all = << >> THEN all ELSE << all[Len(all)] >>

\* the key of the nested target the query filters on
ThroughQueryKey == IF relBType = "belongsTo" THEN PrimaryKey ELSE ForeignKeyB(relBType)

\* resource[relationName].forEach / .map needs a collection in the slot
Iterable(rs) == \A i \in 1..Len(rs) : rs[i].a.set /\ rs[i].a.many

\* lines 703-780 (find), 331-381 (findOne): the operation for a relation of
\* the related resource
Through ==
    /\ pc = "run"
    /\ ops[ip].type = "through"
    /\ IF value.null \/ value.rs = << >>
       THEN /\ value' = NullValue
            /\ Advance(NullValue)
       ELSE IF ~Iterable(value.rs)
       THEN /\ pc' = "threw"
            /\ UNCHANGED << value, calls, ip, doneArgs >>
       ELSE /\ calls' = Append(calls,
                   Call("U", "find", "through",
                        [def |-> TRUE,
                         cl  |-> << Clause(<< ThroughQueryKey >>, "in", "",
                                           KeysOf(RefsOf(value.rs, 1, 1)), "") >>],
                        {}, 0, 0))
            /\ pc' = "wait"
            /\ UNCHANGED << value, ip, doneArgs >>
    /\ UNCHANGED << method, relAType, relBType, where, withRelated, withCount,
                    ops, wrel, nwhere, mongoQuery, filter, cached, held, gw, plugin >>

\* the key of a fetched document its intermediaries are looked up by
\* (lines 793-797, 394-398)
ThroughDocKey(d) ==
    IF relBType = "belongsTo" THEN d[PrimaryKey] ELSE d[ForeignKeyB(relBType)]

\* lines 799-816 (find), 400-415 (findOne): one fetched document is given to
\* the intermediaries in arr.  The result is [ok, rs]; ok is FALSE when a
\* hasMany document is pushed to a through attribute that holds no
\* collection (a TypeError).
RECURSIVE Attach(_, _, _, _)
Attach(rs, arr, d, first) ==
    IF arr = << >> THEN [ok |-> TRUE, rs |-> rs]
    ELSE LET i   == Head(arr).i
             j   == Head(arr).j
             old == IF first THEN ManySlot(<< >>) ELSE rs[i].a.docs[j].b
         IN  IF relBType = "hasMany"
             THEN IF ~old.set THEN [ok |-> FALSE, rs |-> rs]
                  ELSE Attach([rs EXCEPT ![i].a.docs[j].b =
                                   [old EXCEPT !.docs = Append(@, d)]],
                              Tail(arr), d, first)
             ELSE Attach([rs EXCEPT ![i].a.docs[j].b = OneSlot(<< d >>)],
                         Tail(arr), d, first)

\* lines 789-817 (find), 390-416 (findOne): docs.forEach(function (doc, i)
RECURSIVE AttachAll(_, _, _, _)
AttachAll(rs, refs, docs, n) ==
    IF n > Len(docs) THEN [ok |-> TRUE, rs |-> rs]
    ELSE LET r == Attach(rs, Intermediaries(refs, ThroughDocKey(docs[n])),
                         docs[n], n = 1)
         IN  IF r.ok THEN AttachAll(r.rs, refs, docs, n + 1) ELSE r

\* lines 827-829 (find), 425-427 (findOne): the through collections of the
\* intermediaries in arr are reset to their slice
RECURSIVE Window(_, _, _, _)
Window(rs, arr, from, size) ==
    IF arr = << >> THEN rs
    ELSE Window([rs EXCEPT ![Head(arr).i].a.docs[Head(arr).j].b.docs =
                     Slice(@, from, size)],
                Tail(arr), from, size)

\* lines 819-832 (find), 418-429 (findOne): the second docs.forEach
RECURSIVE WindowAll(_, _, _, _, _)
WindowAll(rs, refs, docs, from, size) ==
    IF docs = << >> THEN rs
    ELSE WindowAll(Window(rs, Intermediaries(refs, Head(docs)[ForeignKeyB(relBType)]),
                          from, size),
                   refs, Tail(docs), from, size)

\* lines 781-835 (find), 382-432 (findOne): the callback of the nested query
ThroughReturn ==
    /\ pc = "wait"
    /\ ops[ip].type = "through"
    /\ \/ /\ Fail
          /\ UNCHANGED << ip, value >>
       \/ LET docs == StoreFind("U", calls[Len(calls)].q, {})
              refs == RefsOf(value.rs, 1, 1)
              opts == withRelated[ops[ip].r]
              r    == AttachAll(value.rs, refs, docs, 1)
          IN  IF r.ok
              THEN /\ value' = [value EXCEPT !.rs =
                                   IF relBType = "hasMany" /\ opts.nsize # 0
                                   THEN WindowAll(r.rs, refs, docs, opts.nfrom, opts.nsize)
                                   ELSE r.rs]
                   /\ Advance(value')
              ELSE /\ value' = [value EXCEPT !.rs = r.rs]
                   /\ pc' = "threw"
                   /\ calls' = [calls EXCEPT ![Len(calls)].status = "ok"]
                   /\ UNCHANGED << ip, doneArgs >>
    /\ UNCHANGED << method, relAType, relBType, where, withRelated, withCount,
                    ops, wrel, nwhere, mongoQuery, filter, cached, held, gw, plugin >>

----------------------------------------------------------------------------

Next ==
    \/ Invoke
    \/ NestedLookup
    \/ NestedLookupReturn
    \/ RelationLookup
    \/ RelationLookupReturn
    \/ PrimaryQuery
    \/ PrimaryReturn
    \/ CountReturn
    \/ FindInclude
    \/ FindIncludeReturn
    \/ FindOneInclude
    \/ FindOneIncludeReturn
    \/ Through
    \/ ThroughReturn

Spec == Init /\ [][Next]_vars

----------------------------------------------------------------------------
(* Properties of the planner (Spec).                                       *)

\* C1: in every find and findOne invocation every relation-predicate lookup
\* (on the related and the nested-related collection) has returned before
\* the primary query is issued, and every includeRelated and nested-through
\* query is issued only after the primary query has returned.
C1_LookupsPrimaryIncludes ==
    \A i \in 1..Len(calls) :
        /\ calls[i].stage = "primary" =>
              \A j \in 1..Len(calls) :
                  calls[j].stage \in {"nested", "relation"} =>
                      j < i /\ calls[j].status = "ok"
        /\ calls[i].stage \in {"include", "through"} =>
              \E j \in 1..(i - 1) :
                  calls[j].stage = "primary" /\ calls[j].status = "ok"

\* a findOne that narrowed by a nested and a one-level lookup, fetched the
\* primary resource and then queried the nested-through relation
C1_Witness ==
    /\ pc = "done"
    /\ \E u, t, p, n \in 1..Len(calls) :
          /\ u < t /\ t < p /\ p < n
          /\ calls[u].stage = "nested"
          /\ calls[t].stage = "relation"
          /\ calls[p].stage = "primary"
          /\ calls[n].stage = "through"

\* C2: if any store call of a find or findOne pipeline returns an error,
\* the invocation issues no further store call and the callback receives
\* that error with no result.
C2_FailFast ==
    \A i \in 1..Len(calls) :
        calls[i].status = "err" =>
            /\ i = Len(calls)
            /\ pc = "done"
            /\ Len(doneArgs) = 1
            /\ doneArgs[1].err
            /\ ~doneArgs[1].hasVal

\* the nested-through query of an invocation that already holds primary
\* and related resources fails
C2_Witness ==
    /\ Len(calls) >= 3
    /\ calls[Len(calls)].stage = "through"
    /\ calls[Len(calls)].status = "err"
    /\ ~value.null

\* C3: for a where key a.b.field = x the invocation issues, in this order,
\* a query on U filtered by field = x, a query on T whose filter holds the
\* inclusion set built from U's documents on the join key, and the primary
\* query filtered by the inclusion set built from T's documents; when the U
\* query returns no document the invocation ends with zero results and no
\* error.
C3_ThroughPredicate ==
    \A i \in 1..Len(where) :
        (/\ Len(where[i].key) = 3
         /\ IsRelationOfP(where[i].key[1])
         /\ IsRelationOfT(where[i].key[2])
         /\ pc \in {"done", "threw"}
         /\ \A k \in 1..Len(calls) : calls[k].status # "err")
        => \E u, t, p \in 1..Len(calls) :
              LET docsU == StoreFind("U", calls[u].q, {})
                  docsT == StoreFind("T", calls[t].q, {})
                  keyT  == IF relBType = "belongsTo" THEN "u_id" ELSE "id"
                  valU  == IF relBType = "belongsTo" THEN "id" ELSE "t_id"
                  keyP  == IF relAType = "belongsTo" THEN "t_id" ELSE "id"
                  valT  == IF relAType = "belongsTo" THEN "id" ELSE "p_id"
              IN  /\ u < t /\ t < p
                  /\ calls[u].ent = "U"
                  /\ calls[u].q.def
                  /\ \E c \in SeqToSet(calls[u].q.cl) :
                        c.k = << where[i].key[3] >> /\ c.v = where[i].v
                  /\ calls[t].ent = "T"
                  /\ \E c \in SeqToSet(calls[t].q.cl) :
                        /\ c.k = << keyT >> /\ c.op = "in"
                        /\ c.vs = MapField(docsU, valU)
                  /\ calls[p].stage = "primary"
                  /\ \E c \in SeqToSet(calls[p].q.cl) :
                        /\ c.k = << keyP >> /\ c.op = "in"
                        /\ SeqToSet(MapField(docsT, valT)) \subseteq SeqToSet(c.vs)
                  /\ docsU = << >> =>
                        /\ pc = "done"
                        /\ ~doneArgs[1].err
                        /\ doneArgs[1].val.rs = << >>

\* C4: after a one-level relation-predicate lookup the candidate ids are in
\* the primary filter by the relation's orientation: for belongsTo an
\* inclusion set on the primary's foreign key holding the primary keys of
\* the target documents found, for hasOne and hasMany an inclusion set on
\* the primary's primary key holding their foreign-key values.
C4_FoldOrientation ==
    \A i \in 1..Len(calls) :
        (calls[i].stage = "relation" /\ calls[i].status = "ok") =>
            LET found == StoreFind("T", calls[i].q, {})
                key   == IF relAType = "belongsTo" THEN "t_id" ELSE "id"
                from  == IF relAType = "belongsTo" THEN "id" ELSE "p_id"
            IN  /\ Len(filter.cl) = 1
                /\ filter.cl[1].k = << key >>
                /\ filter.cl[1].op = "in"
                /\ \A d \in SeqToSet(found) : d[from] \in SeqToSet(filter.cl[1].vs)
                /\ \A v \in SeqToSet(filter.cl[1].vs) :
                      \E j \in 1..Len(calls) :
                          /\ calls[j].stage = "relation"
                          /\ \E d \in SeqToSet(StoreFind("T", calls[j].q, {})) :
                                d[from] = v

\* a hasMany lookup has found T documents of two different primaries
C4_Witness ==
    /\ relAType = "hasMany"
    /\ \E i \in 1..Len(calls) :
          /\ calls[i].stage = "relation"
          /\ calls[i].status = "ok"
    /\ Len(filter.cl) = 1
    /\ {"p1", "p2"} \subseteq SeqToSet(filter.cl[1].vs)

\* C5: in the primary predicate the inclusion set on a key holds every
\* value of the caller's own $in on that key and every candidate id of
\* every relation lookup folded onto that key.
C5_NoContributionLost ==
    \A p \in 1..Len(calls) :
        calls[p].stage = "primary" =>
            /\ \A i \in 1..Len(where) :
                  (where[i].kind = "in" /\ ~IsRelationOfP(where[i].key[1])) =>
                      \E c \in SeqToSet(calls[p].q.cl) :
                          /\ c.k = where[i].key
                          /\ c.op = "in"
                          /\ SeqToSet(where[i].vs) \subseteq SeqToSet(c.vs)
            /\ \A j \in 1..Len(calls) :
                  calls[j].stage = "relation" =>
                      \E c \in SeqToSet(calls[p].q.cl) :
                          /\ c.k = << IF relAType = "belongsTo" THEN "t_id" ELSE "id" >>
                          /\ c.op = "in"
                          /\ \A d \in SeqToSet(StoreFind("T", calls[j].q, {})) :
                                d[IF relAType = "belongsTo" THEN "id" ELSE "p_id"]
                                    \in SeqToSet(c.vs)

\* the caller's own $in on id and the candidates of a hasMany lookup are
\* both in the primary query's inclusion set on id
C5_Witness ==
    \E p \in 1..Len(calls) :
        /\ calls[p].stage = "primary"
        /\ \E i \in 1..Len(where) : where[i].kind = "in" /\ where[i].key = << "id" >>
        /\ \E c \in SeqToSet(calls[p].q.cl) :
              /\ c.k = << "id" >>
              /\ {"p9", "p2"} \subseteq SeqToSet(c.vs)

\* C9: when a relation is named both in where and in includeRelated, find
\* and findOne complete successfully, issue no second query against the
\* relation's collection for includeRelated, and populate the relation slot
\* of the primary entities from the documents fetched during narrowing.
C9_CachedReuse ==
    (/\ cached.set
     /\ withRelated # << >>
     /\ pc \in {"done", "threw"}
     /\ \A k \in 1..Len(calls) : calls[k].status # "err"
     /\ \E p \in 1..Len(calls) :
           /\ calls[p].stage = "primary"
           /\ StoreFind("P", calls[p].q, {}) # << >>)
    => /\ pc = "done"
       /\ Len(doneArgs) = 1
       /\ ~doneArgs[1].err
       /\ \A k \in 1..Len(calls) : calls[k].stage # "include"
       /\ \A i \in 1..Len(doneArgs[1].val.rs) :
             /\ doneArgs[1].val.rs[i].a.set
             /\ \A j \in 1..Len(doneArgs[1].val.rs[i].a.docs) :
                   doneArgs[1].val.rs[i].a.docs[j].doc \in SeqToSet(cached.docs)

\* C10: after find resolves an included relation, a hasMany slot holds
\* exactly the returned related documents whose foreign key equals the
\* primary's primary key, in returned order, a belongsTo (hasOne) slot holds
\* a returned document whose primary key equals the primary's foreign key
\* (whose foreign key equals the primary's primary key); no related
\* document is ever attached to a primary entity whose join key differs
\* from the document's.  The exact contents are stated for a relation
\* requested without a size.
C10_StitchByJoinKey ==
    method = "find" =>
        \A i \in 1..Len(value.rs) :
            LET res == value.rs[i]
                eq(d) == IF relAType = "belongsTo" THEN res.doc.t_id = d.id
                         ELSE res.doc.id = d.p_id
            IN  /\ \A j \in 1..Len(res.a.docs) : eq(res.a.docs[j].doc)
                /\ \A c \in 1..Len(calls) :
                      (/\ calls[c].stage = "include"
                       /\ calls[c].status = "ok"
                       /\ relAType = "hasMany"
                       /\ withRelated[1].size = 0)
                      => [j \in 1..Len(res.a.docs) |-> res.a.docs[j].doc]
                            = SelectSeq(StoreFind("T", calls[c].q, {}), eq)

\* C12: for a belongsTo relation in includeRelated, a primary entity whose
\* foreign key is null or absent never causes a lookup carrying a null
\* filter value: findOne issues no query for the relation, find never puts
\* the null into the inclusion set sent to the store.
C12_NoNullLookup ==
    relAType = "belongsTo" =>
        \A c \in 1..Len(calls) :
            calls[c].stage = "include" =>
                \A cl \in SeqToSet(calls[c].q.cl) :
                    /\ cl.op = "str" => ~Falsy(cl.v)
                    /\ cl.op = "in" => \A v \in SeqToSet(cl.vs) : ~Falsy(v)

\* C13: in find over N primary entities, resolving an includeRelated
\* relation that is not also named in where issues exactly one follow-up
\* query against the related collection, whose inclusion set holds the
\* join-key values of all N primaries.
C13_OneBatchedQuery ==
    (method = "find" /\ \A i \in 1..Len(where) : ~IsRelationOfP(where[i].key[1])) =>
        /\ \A c, d \in 1..Len(calls) :
              (calls[c].stage = "include" /\ calls[d].stage = "include") => c = d
        /\ \A c \in 1..Len(calls) :
              calls[c].stage = "include" =>
                  /\ calls[c].ent = "T"
                  /\ Len(calls[c].q.cl) = 1
                  /\ calls[c].q.cl[1].op = "in"
                  /\ calls[c].q.cl[1].k =
                        << IF relAType = "belongsTo" THEN "id" ELSE "p_id" >>
                  /\ calls[c].q.cl[1].vs =
                        [i \in 1..Len(value.rs) |->
                            IF relAType = "belongsTo" THEN value.rs[i].doc.t_id
                            ELSE value.rs[i].doc.id]
        /\ (/\ pc = "done"
            /\ ~doneArgs[1].err
            /\ withRelated # << >>
            /\ value.rs # << >>)
           => \E c \in 1..Len(calls) : calls[c].stage = "include"

\* a find over three primary entities has resolved its hasMany relation
\* with one query
C13_Witness ==
    /\ method = "find"
    /\ relAType = "hasMany"
    /\ pc = "done"
    /\ Len(value.rs) = 3
    /\ \E c \in 1..Len(calls) :
          /\ calls[c].stage = "include"
          /\ calls[c].status = "ok"
          /\ calls[c].q.cl[1].vs = << "p1", "p2", "p3" >>

\* C14: a findOne whose primary query matches no document completes with
\* no error and a null result, and issues no includeRelated or
\* nested-through query.
C14_NotFound ==
    (/\ method = "findOne"
     /\ \E p \in 1..Len(calls) :
           /\ calls[p].stage = "primary"
           /\ calls[p].status = "ok"
           /\ StoreFind("P", calls[p].q, {}) = << >>)
    => /\ pc \in {"run", "done"}
       /\ \A c \in 1..Len(calls) : calls[c].stage \notin {"include", "through"}
       /\ pc = "done" =>
             /\ Len(doneArgs) = 1
             /\ ~doneArgs[1].err
             /\ doneArgs[1].hasVal
             /\ doneArgs[1].val.null

\* a findOne asked for a relation and its nested relation has found no
\* primary document and completed
C14_Witness ==
    /\ method = "findOne"
    /\ pc = "done"
    /\ withRelated # << >>
    /\ withRelated[1].nested
    /\ \E p \in 1..Len(calls) :
          /\ calls[p].stage = "primary"
          /\ calls[p].status = "ok"
          /\ StoreFind("P", calls[p].q, {}) = << >>
    /\ doneArgs[1].val.null

\* C15: when the relation predicates of a find resolve to an empty
\* candidate id set, find still issues the primary query with an empty
\* inclusion set and completes without error, delivering zero primary
\* results as an empty collection, for every combination of where and
\* includeRelated.  Stated for where clauses made of relation predicates.
C15_EmptyCandidates ==
    (/\ method = "find"
     /\ where # << >>
     /\ \A i \in 1..Len(where) : IsRelationOfP(where[i].key[1])
     /\ filter.cl # << >>
     /\ \A i \in 1..Len(filter.cl) : filter.cl[i].vs = << >>
     /\ pc \in {"done", "threw"}
     /\ \A k \in 1..Len(calls) : calls[k].status # "err")
    => /\ pc = "done"
       /\ \E p \in 1..Len(calls) :
             /\ calls[p].stage = "primary"
             /\ \E cl \in SeqToSet(calls[p].q.cl) : cl.op = "in" /\ cl.vs = << >>
       /\ Len(doneArgs) = 1
       /\ ~doneArgs[1].err
       /\ ~doneArgs[1].val.null
       /\ doneArgs[1].val.rs = << >>

C18_PageWindow ==
    (/\ method = "find"
     /\ relAType = "hasMany"
     /\ Len(withRelated) = 1
     /\ ~withRelated[1].nested
     /\ withRelated[1].size # 0
     /\ ~value.null) =>
        \A i \in 1..Len(value.rs) :
            value.rs[i].a.hasTotal =>
                LET full == RelatedAll(SelectSeq(Collection("T"),
                                LAMBDA d : Joins(value.rs[i], d)))
                    f    == withRelated[1].from
                    sz   == withRelated[1].size
                IN  /\ value.rs[i].a.docs = SubSeq(full, f + 1, Min(f + sz, Len(full)))
                    /\ value.rs[i].a.total = Len(full)

\* C20: no find or findOne raises an exception, whatever the query and the
\* store's responses: every failure reaches the caller's callback instead.
C20_NoException == pc # "threw"

\* C29: with withCount a find passes its result set on only together with
\* the number of documents matching the predicate of the primary query; the
\* count is asked once, after the primary query succeeded and with its
\* predicate; a failed count ends the find with the error and no result
\* set; without withCount, and outside find, no count is asked.
C29_CountWithResults ==
    /\ (method = "find" /\ withCount /\ ~value.null) =>
           /\ value.hasCount
           /\ value.count = StoreCount("P", mongoQuery)
    /\ ~(method = "find" /\ withCount) => ~value.hasCount
    /\ \A i \in 1..Len(calls) :
           calls[i].verb = "count" =>
               /\ method = "find" /\ withCount
               /\ i > 1
               /\ calls[i-1].verb = "find"
               /\ calls[i-1].stage = "primary"
               /\ calls[i-1].status = "ok"
               /\ calls[i].ent = calls[i-1].ent
               /\ calls[i].q = calls[i-1].q
               /\ \A j \in 1..Len(calls) : calls[j].verb = "count" => j = i
               /\ calls[i].status = "err" =>
                      /\ pc = "done"
                      /\ doneArgs = << [err |-> TRUE, val |-> NullValue,
                                        hasVal |-> FALSE] >>
                      /\ value.null

\* a find with withCount has delivered documents and their count
C29_Witness ==
    /\ pc = "done"
    /\ method = "find"
    /\ withCount
    /\ value.hasCount
    /\ value.count > 0
    /\ Len(value.rs) > 0

\* C36: within one find or findOne at most one store call is outstanding:
\* every store call but the last has called back, so each call, the count
\* included, was started after the one before it returned.
C36_OneOutstanding ==
    /\ \A i \in 1..Len(calls) : calls[i].status = "out" => i = Len(calls)
    /\ (Len(calls) > 0 /\ calls[Len(calls)].status = "out") =>
           pc \in {"wait", "count"}

\* a find with withCount waits for its count after a relation lookup and
\* the primary query have returned
C36_Witness ==
    /\ pc = "count"
    /\ Len(calls) > 2
    /\ calls[Len(calls)].verb = "count"
    /\ calls[Len(calls)].status = "out"
    /\ calls[Len(calls) - 1].status = "ok"

\* C38: every find and findOne calls its completion callback exactly once
\* after finitely many store calls: the callback is never called twice, an
\* invocation that can take no further step has called it, and no
\* operation makes more than one store call besides the count.
C38_CompletesOnce ==
    /\ Len(doneArgs) <= 1
    /\ (pc = "done") <=> (Len(doneArgs) = 1)
    /\ (pc \notin {"idle", "run", "wait", "count"}) => Len(doneArgs) = 1
    /\ Len(calls) <= Len(ops) + 1

----------------------------------------------------------------------------
(* The planner over where clauses of relation predicates: several keys on  *)
(* the same relation, and string and number literals.                      *)

RelationEntries ==
    { Entry(<< "a", "name" >>, "str", "tx", << >>),
      Entry(<< "a", "name" >>, "num", "7", << >>),
      Entry(<< "a", "id" >>, "str", "t2", << >>),
      Entry(<< "a", "b", "name" >>, "str", "alex", << >>),
      Entry(<< "name" >>, "str", "n1", << >>) }

RelationWheres ==
    { w \in UNION { [1..n -> RelationEntries] : n \in 0..MaxWhere } :
        \A i, j \in 1..Len(w) : i # j => w[i].key # w[j].key }

InitRelations ==
    /\ method \in {"find", "findOne"}
    /\ relAType \in RelTypes
    /\ relBType \in RelTypes
    /\ where \in RelationWheres
    /\ withRelated \in Includes
    /\ withCount \in BOOLEAN
    /\ pc = "idle"
    /\ ops = << >>
    /\ ip = 0
    /\ wrel = << >>
    /\ nwhere = << >>
    /\ mongoQuery = EmptyObj
    /\ filter = EmptyObj
    /\ cached = NoCache
    /\ value = NullValue
    /\ calls = << >>
    /\ held = << >>
    /\ doneArgs = << >>
    /\ gw = 0
    /\ plugin = 0

SpecRelations == InitRelations /\ [][Next]_vars

\* C11: a where key rel.field with literal v makes the lookup against
\* rel's target collection carry the predicate field = v, whatever the type
\* of v and however many where keys name the same relation: each of them
\* appears in that lookup.
C11_RelationPredicate ==
    \A i \in 1..Len(where) :
        (Len(where[i].key) = 2 /\ IsRelationOfP(where[i].key[1])) =>
            \A c \in 1..Len(calls) :
                calls[c].stage = "relation" =>
                    /\ calls[c].q.def
                    /\ \E cl \in SeqToSet(calls[c].q.cl) :
                          /\ cl.k = << where[i].key[2] >>
                          /\ cl.op = where[i].kind
                          /\ cl.v = where[i].v

----------------------------------------------------------------------------
(* The transcoder: prepareQueryOrDocument (lines 1157-1184).               *)
(*                                                                         *)
(* An object is the sequence of its properties [k, v] in insertion order;  *)
(* a value is [t, s, kids]: a string, number, null or ObjectID with text   *)
(* s, or an object or array with properties kids (an array's keys are its  *)
(* indices, as `for (var key in obj)` yields them).                        *)

Str(s) == [t |-> "str", s |-> s, kids |-> << >>]
Num(s) == [t |-> "num", s |-> s, kids |-> << >>]
NullVal == [t |-> "null", s |-> "", kids |-> << >>]
Oid(s) == [t |-> "oid", s |-> s, kids |-> << >>]
Bool(s) == [t |-> "bool", s |-> s, kids |-> << >>]
Obj(kids) == [t |-> "obj", s |-> "", kids |-> kids]
Arr(kids) == [t |-> "arr", s |-> "", kids |-> kids]

Prop(k, v) == [k |-> k, v |-> v]

\* an attribute definition; alias "" stands for no alias
Attr(alias, objectId, relation, transient) ==
    [def |-> TRUE, alias |-> alias, objectId |-> objectId,
     relation |-> relation, transient |-> transient]

NoAttr ==
    [def |-> FALSE, alias |-> "", objectId |-> FALSE,
     relation |-> FALSE, transient |-> FALSE]

\* Resource.attributes[key] of the entity the predicate is for
AttributeOf(key) ==
    CASE key = "id"       -> Attr("_id", TRUE, FALSE, FALSE)
      [] key = "authorId" -> Attr("", TRUE, FALSE, FALSE)
      [] key = "name"     -> Attr("fullName", FALSE, FALSE, FALSE)
      [] key = "author"   -> Attr("", FALSE, TRUE, FALSE)
      [] key = "secret"   -> Attr("", FALSE, FALSE, TRUE)
      [] key \in {"active", "role", "createdAt"}
                          -> Attr("", FALSE, FALSE, FALSE)
      [] OTHER            -> NoAttr

\* key.charAt(0) === '$'
IsKeyword(key) == key \in {"$in", "$ne"}

\* strings new ObjectID(s) accepts; for any other string it throws
Hex24 == "547dfc2bdc1e430000ff13b0"
ObjectIDAccepts(s) == s = Hex24

\* prepared[k] = v
Put(props, k, v) ==
    IF \E i \in 1..Len(props) : props[i].k = k
    THEN [i \in 1..Len(props) |-> IF props[i].k = k THEN Prop(k, v) ELSE props[i]]
    ELSE Append(props, Prop(k, v))

\* a variant of PrepareProps whose descent forgets the parent attribute
RECURSIVE PreparePropsNoInherit(_, _, _)
PreparePropsNoInherit(props, parentAttr, prepared) ==
    IF props = << >> THEN prepared
    ELSE LET key      == Head(props).k
             val      == Head(props).v
             currAttr == AttributeOf(key)
             name     == IF currAttr.def /\ currAttr.alias # ""
                         THEN currAttr.alias ELSE key
         IN  IF currAttr.def /\ (currAttr.relation \/ currAttr.transient)
             THEN PreparePropsNoInherit(Tail(props), parentAttr, prepared)
             ELSE IF val.t \in {"obj", "arr"}
             THEN PreparePropsNoInherit(Tail(props), parentAttr,
                      Put(prepared, name,
                          [val EXCEPT !.kids =
                              PreparePropsNoInherit(val.kids, NoAttr, << >>)]))
             ELSE PreparePropsNoInherit(Tail(props), parentAttr,
                      Put(prepared, name,
                          IF val.t = "str" /\ currAttr.def /\ currAttr.objectId
                          THEN Oid(val.s) ELSE val))

\* the loop of lines 1161-1181 over the properties not yet visited
RECURSIVE PrepareProps(_, _, _)
PrepareProps(props, parentAttr, prepared) ==
    IF props = << >> THEN prepared
    ELSE LET key      == Head(props).k
             val      == Head(props).v
             currAttr == AttributeOf(key)
             attr     == IF currAttr.def THEN currAttr ELSE parentAttr
             name     == IF currAttr.def /\ currAttr.alias # ""
                         THEN currAttr.alias ELSE key
             toObjectId == val.t = "str" /\ attr.def /\ attr.objectId
         IN  IF attr.def /\ (attr.relation \/ attr.transient)
             THEN PrepareProps(Tail(props), parentAttr, prepared)
             ELSE IF val.t \in {"obj", "arr"}
             THEN PrepareProps(Tail(props), parentAttr,
                      Put(prepared, name,
                          [val EXCEPT !.kids =
                              PrepareProps(val.kids,
                                  IF ~IsKeyword(key) /\ attr.def THEN attr
                                  ELSE parentAttr,
                                  << >>)]))
             ELSE PrepareProps(Tail(props), parentAttr,
                      Put(prepared, name,
                          IF toObjectId THEN Oid(val.s) ELSE val))

PrepareQueryOrDocument(obj) == PrepareProps(obj, NoAttr, << >>)

\* new ObjectID(val) of line 1178 throws somewhere in the object
RECURSIVE PrepareThrows(_, _)
PrepareThrows(props, parentAttr) ==
    IF props = << >> THEN FALSE
    ELSE LET key      == Head(props).k
             val      == Head(props).v
             currAttr == AttributeOf(key)
             attr     == IF currAttr.def THEN currAttr ELSE parentAttr
         IN  \/ /\ ~(attr.def /\ (attr.relation \/ attr.transient))
                /\ IF val.t \in {"obj", "arr"}
                   THEN PrepareThrows(val.kids,
                            IF ~IsKeyword(key) /\ attr.def THEN attr ELSE parentAttr)
                   ELSE /\ val.t = "str"
                        /\ attr.def
                        /\ attr.objectId
                        /\ ~ObjectIDAccepts(val.s)
             \/ PrepareThrows(Tail(props), parentAttr)

(* prepareResource (lines 1197-1217), the listener of set, reset and       *)
(* initialize: it rewrites the attributes a resource is given.             *)

\* the declared attributes, in declaration order
DeclaredKeys ==
    << "id", "authorId", "name", "author", "secret", "active", "role",
       "createdAt" >>

HasProp(props, k) == \E i \in 1..Len(props) : props[i].k = k

GetProp(props, k) == props[CHOOSE i \in 1..Len(props) : props[i].k = k].v

\* delete props[k]
DeleteProp(props, k) == SelectSeq(props, LAMBDA p : p.k # k)

\* a variant of IsObject that takes null for an object
IsObjectOrNull(v) == v.t \in {"obj", "arr", "oid", "null"}

\* typeof value === 'object' && value !== null
IsObject(v) == v.t \in {"obj", "arr", "oid"}

\* value.toString(): an ObjectID gives its hex text, a plain object
\* "[object Object]", an array its elements' texts joined (here for arrays
\* of at most one element), a scalar its text
RECURSIVE ValueToString(_)
ValueToString(v) ==
    CASE v.t = "obj" -> Str("[object Object]")
      [] v.t = "arr" -> IF v.kids = << >> THEN Str("")
                        ELSE ValueToString(v.kids[1].v)
      [] OTHER       -> Str(v.s)

\* the loop of lines 1199-1214 over the attributes not yet visited
RECURSIVE PrepareKeys(_, _)
PrepareKeys(keys, attributes) ==
    IF keys = << >> THEN attributes
    ELSE LET key   == Head(keys)
             attr  == AttributeOf(key)
             name  == IF attr.alias # "" THEN attr.alias ELSE key
             cast  == IF /\ HasProp(attributes, name)
                         /\ IsObject(GetProp(attributes, name))
                         /\ attr.objectId
                      THEN Put(attributes, name, ValueToString(GetProp(attributes, name)))
                      ELSE attributes
             moved == IF attr.alias # "" /\ HasProp(cast, attr.alias)
                      THEN DeleteProp(Put(cast, key, GetProp(cast, attr.alias)),
                                      attr.alias)
                      ELSE cast
         IN  PrepareKeys(Tail(keys), moved)

PrepareResource(attributes) == PrepareKeys(DeclaredKeys, attributes)

(* The transcoder in the planner.  A predicate for an entity is either the *)
(* where clause of a primary query, prepared at line 453 (line 135 in      *)
(* findOne) and sent at lines 559-561, or the predicate whereRelation of a *)
(* relation filter, handed to the store by the lookup of lines 520-526     *)
(* (201-207 in findOne) as the planner built it.                           *)

MaxKeys == 2

QueryKeys == {"id", "_id", "authorId", "name", "author", "x"}

QueryValues ==
    { Str(Hex24), Str("abc"), Num("7"), NullVal,
      Obj(<< Prop("$in", Arr(<< Prop("0", Str(Hex24)), Prop("1", Num("7")) >>)) >>),
      Obj(<< Prop("$ne", Str(Hex24)) >>),
      Obj(<< Prop("name", Num("7")) >>) }

QueryObjects ==
    { o \in UNION { [1..n -> [k : QueryKeys, v : QueryValues]] : n \in 0..MaxKeys } :
        \A i, j \in 1..Len(o) : i # j => o[i].k # o[j].k }

InitTranscoder ==
    /\ method \in {"find", "findOne"}
    /\ relAType = "belongsTo"
    /\ relBType = "belongsTo"
    /\ where \in QueryObjects
    /\ withRelated = << >>
    /\ withCount = FALSE
    /\ pc = "idle"
    /\ ops = << >>
    /\ ip = 0
    /\ wrel = << >>
    /\ nwhere = << >>
    /\ mongoQuery = << >>
    /\ filter = EmptyObj
    /\ cached = NoCache
    /\ value = NullValue
    /\ calls = << >>
    /\ held = << >>
    /\ doneArgs = << >>
    /\ gw = 0
    /\ plugin = 0

\* line 453: mongoQuery = prepareQueryOrDocument(query.where(), attributes)
PreparePrimary ==
    /\ pc = "idle"
    /\ IF PrepareThrows(where, NoAttr)
       THEN /\ pc' = "threw"
            /\ UNCHANGED mongoQuery
       ELSE /\ pc' = "prepared"
            /\ mongoQuery' = PrepareQueryOrDocument(where)
    /\ UNCHANGED <<method, relAType, relBType, where, withRelated, withCount,
                   ops, ip, wrel, nwhere, filter, cached, value, calls, held,
                   doneArgs, gw, plugin>>

\* lines 559-561: the primary query goes to the store
SendPrimary ==
    /\ pc = "prepared"
    /\ calls' = Append(calls, Call("P", method, "primary", mongoQuery, << >>, 0, 0))
    /\ pc' = "sent"
    /\ UNCHANGED <<method, relAType, relBType, where, withRelated, withCount,
                   ops, ip, wrel, nwhere, mongoQuery, filter, cached, value,
                   held, doneArgs, gw, plugin>>

\* lines 520-526: find(whereRelation, select, {}, ...) on the target
LookupRelation ==
    /\ pc = "idle"
    /\ calls' = Append(calls, Call("T", "find", "relation", where, << >>, 0, 0))
    /\ pc' = "sent"
    /\ UNCHANGED <<method, relAType, relBType, where, withRelated, withCount,
                   ops, ip, wrel, nwhere, mongoQuery, filter, cached, value,
                   held, doneArgs, gw, plugin>>

\* lines 241-247, 883, 916: the store hands back the document it was sent
\* and a resource is made or reset from it, which runs prepareResource
Reset ==
    /\ pc = "sent"
    /\ calls[1].stage = "primary"
    /\ value' = PrepareResource(mongoQuery)
    /\ pc' = "reset"
    /\ UNCHANGED <<method, relAType, relBType, where, withRelated, withCount,
                   ops, ip, wrel, nwhere, mongoQuery, filter, cached, calls,
                   held, doneArgs, gw, plugin>>

NextTranscoder ==
    \/ PreparePrimary
    \/ SendPrimary
    \/ LookupRelation
    \/ Reset

SpecTranscoder == InitTranscoder /\ [][NextTranscoder]_vars

\* C17: every predicate sent to the store, the relation-filter lookups
\* included, is the transcoder's output for the predicate the planner built:
\* aliased attributes under their storage names, identifier strings as
\* native identifiers.
C17_EveryPredicateTranscoded ==
    \A p \in 1..Len(calls) : calls[p].q = PrepareQueryOrDocument(where)

\* C19: an identifier-encoded attribute holding a string that is not a
\* valid identifier raises no exception, and the prepared predicate carries
\* the string unchanged under the attribute's storage name.
C19_FailsSoft ==
    \A i \in 1..Len(where) :
        (AttributeOf(where[i].k).objectId /\ where[i].v = Str("abc")) =>
            /\ pc # "threw"
            /\ pc = "prepared" =>
                   \E j \in 1..Len(mongoQuery) : mongoQuery[j].v = Str("abc")

\* C21: a value under operator keys of an aliased, identifier-encoded
\* attribute, also inside an array under such a key, is renamed and encoded
\* as if it stood directly under the attribute: {id: {$in: [s]}} becomes
\* {_id: {$in: [encode(s)]}}.
C21_OperatorInherits ==
    (pc \in {"prepared", "reset"} \/ (pc = "sent" /\ calls[1].stage = "primary")) =>
        \A i \in 1..Len(where) :
            LET k == where[i].k
                v == where[i].v
                a == AttributeOf(k)
                Encode(x) == IF x.t = "str" THEN Oid(x.s) ELSE x
                Expected(x) ==
                    IF x.t = "arr"
                    THEN Arr([n \in 1..Len(x.kids) |->
                                 Prop(x.kids[n].k, Encode(x.kids[n].v))])
                    ELSE Encode(x)
            IN  (/\ a.objectId
                 /\ a.alias # ""
                 /\ v.t = "obj"
                 /\ \A n \in 1..Len(v.kids) : IsKeyword(v.kids[n].k)
                 /\ \A j \in 1..Len(where) : where[j].k # a.alias) =>
                    /\ \A j \in 1..Len(mongoQuery) : mongoQuery[j].k # k
                    /\ \E j \in 1..Len(mongoQuery) :
                           /\ mongoQuery[j].k = a.alias
                           /\ mongoQuery[j].v =
                                  Obj([n \in 1..Len(v.kids) |->
                                          Prop(v.kids[n].k, Expected(v.kids[n].v))])

C21_Witness ==
    /\ pc = "sent"
    /\ where = << Prop("id", Obj(<< Prop("$in",
                      Arr(<< Prop("0", Str(Hex24)), Prop("1", Num("7")) >>)) >>)) >>
    /\ mongoQuery = << Prop("_id", Obj(<< Prop("$in",
                      Arr(<< Prop("0", Oid(Hex24)), Prop("1", Num("7")) >>)) >>)) >>

\* C22: a null value of an identifier-encoded attribute is not given to
\* the identifier codec in either direction: the prepared document holds
\* null under the attribute's storage name, and the resource made from a
\* stored document holding null there holds null under the attribute.
C22_NullUntouched ==
    /\ (pc \in {"prepared", "reset"} \/ (pc = "sent" /\ calls[1].stage = "primary")) =>
           \A i \in 1..Len(where) :
               LET a == AttributeOf(where[i].k)
                   name == IF a.alias # "" THEN a.alias ELSE where[i].k
               IN  (/\ a.objectId
                    /\ where[i].v = NullVal
                    /\ \A j \in 1..Len(where) : where[j].k # a.alias) =>
                       \E j \in 1..Len(mongoQuery) :
                           mongoQuery[j] = Prop(name, NullVal)
    /\ pc = "reset" =>
           \A n \in 1..Len(DeclaredKeys) :
               LET a == AttributeOf(DeclaredKeys[n])
                   name == IF a.alias # "" THEN a.alias ELSE DeclaredKeys[n]
               IN  (/\ a.objectId
                    /\ \E j \in 1..Len(mongoQuery) : mongoQuery[j] = Prop(name, NullVal)) =>
                       /\ \E j \in 1..Len(value) : value[j] = Prop(DeclaredKeys[n], NullVal)
                       /\ a.alias # "" => \A j \in 1..Len(value) : value[j].k # a.alias

C22_Witness ==
    /\ pc = "reset"
    /\ where = << Prop("id", NullVal), Prop("authorId", NullVal) >>
    /\ mongoQuery = << Prop("_id", NullVal), Prop("authorId", NullVal) >>
    /\ value = << Prop("authorId", NullVal), Prop("id", NullVal) >>

\* C23: for an attribute a aliased to _a and a value v that is neither an
\* identifier nor a relation, the stored document is keyed by _a and not by
\* a, and the resource made from it holds {a: v} again.
C23_AliasRoundTrip ==
    (/\ pc = "reset"
     /\ Len(where) = 1
     /\ AttributeOf(where[1].k).alias # ""
     /\ ~AttributeOf(where[1].k).objectId) =>
        /\ Len(mongoQuery) = 1
        /\ mongoQuery[1].k = AttributeOf(where[1].k).alias
        /\ value = where

----------------------------------------------------------------------------
(* The plugin: createMioMongoPlugin (lines 72-122) and the hooks that      *)
(* write (create, createMany, update, updateMany, destroyMany), with the   *)
(* opening of find and findOne.  plugin holds the settings object, what    *)
(* the resource carries once the plugin is attached, the events emitted    *)
(* and the hook's body argument.                                           *)

\* the largest number of keys of a body
MaxBody == 2

\* the settings object: which of its properties are set
Settings == [url : BOOLEAN, connectionString : BOOLEAN, db : BOOLEAN,
             collection : BOOLEAN]

HookNames ==
    {"get", "put", "patch", "post", "delete", "collection:get",
     "collection:put", "collection:patch", "collection:post",
     "collection:delete"}

ListenerNames == {"set", "reset", "initialize"}

\* attributes[key].default: none, a static value, or a function and the
\* value it returns
DefaultOf(key) ==
    CASE key = "active"    -> [kind |-> "static", v |-> Bool("false")]
      [] key = "role"      -> [kind |-> "static", v |-> Str("user")]
      [] key = "createdAt" -> [kind |-> "function", v |-> Num("1")]
      [] OTHER             -> [kind |-> "none", v |-> NullVal]

\* attributes[key] as a value: the attribute's definition object
Descriptor(key) == Obj(<< Prop("default", DefaultOf(key).v) >>)

\* JavaScript truthiness of a value
Truthy(v) ==
    /\ v.t # "null"
    /\ ~(v.t = "bool" /\ v.s = "false")
    /\ ~(v.t = "str" /\ v.s = "")
    /\ ~(v.t = "num" /\ v.s = "0")

BodyEntries ==
    { Prop("id", Str(Hex24)), Prop("id", Str("abc")), Prop("name", Num("7")),
      Prop("author", Bool("false")), Prop("secret", Num("7")),
      Prop("x", Bool("true")), Prop("active", Bool("true")),
      Prop("role", Str("admin")) }

Bodies ==
    { b \in UNION { [1..n -> BodyEntries] : n \in 0..MaxBody } :
        \A i, j \in 1..Len(b) : i # j => b[i].k # b[j].k }

\* the bodies of a batch
BatchBodies ==
    { << >>, << Prop("active", Bool("true")) >>,
      << Prop("x", Bool("true")), Prop("name", Num("7")) >>,
      << Prop("id", Str("abc")) >> }

Batches == UNION { [1..n -> BatchBodies] : n \in 1..2 }

\* the predicates of the queries given to the hooks
PluginWheres ==
    { << >>, << Prop("id", Str(Hex24)) >>, << Prop("id", Str("abc")) >>,
      << Prop("name", Num("7")) >> }

\* a store call made through mongoExec: the verb and its arguments
\* skip is options.skip, where the options come from buildQueryOptions
StoreCall(verb, q, doc, options, skip) ==
    [verb |-> verb, q |-> q, doc |-> doc, options |-> options, skip |-> skip,
     status |-> "out"]

\* query.from of a query given no paging, and the value Number(from || 0)
\* makes of it (line 1251)
NoFrom == Num("0")

\* a listener on 'mongodb:query': it leaves the query alone, replaces its
\* where clause, or sets its paging offset
QueryListeners ==
    { [where |-> FALSE, from |-> FALSE], [where |-> TRUE, from |-> FALSE],
      [where |-> FALSE, from |-> TRUE] }

\* the query after emit('mongodb:query', query) ran listener l on it
Emitted(l, w) ==
    [where |-> IF l.where THEN << Prop("active", Bool("true")) >> ELSE w,
     from  |-> IF l.from THEN Num("2") ELSE NoFrom]

\* an emitted event; calls is the number of store calls made before it
Event(name, query) == [name |-> name, query |-> query, calls |-> Len(calls)]

\* given is the settings object as the caller wrote it, before the factory
\* changes it
NoPlugin(settings) ==
    [given |-> settings, settings |-> settings, mongo |-> FALSE,
     listeners |-> {}, hooks |-> {}, events |-> << >>, body |-> << >>,
     query |-> [where |-> << >>, from |-> NoFrom], error |-> ""]

InitPlugin ==
    /\ plugin \in { NoPlugin(st) : st \in Settings }
    /\ method = ""
    /\ relAType = "belongsTo"
    /\ relBType = "belongsTo"
    /\ where = << >>
    /\ withRelated = << >>
    /\ withCount = FALSE
    /\ pc = "new"
    /\ ops = << >>
    /\ ip = 0
    /\ wrel = << >>
    /\ nwhere = << >>
    /\ mongoQuery = << >>
    /\ filter = EmptyObj
    /\ cached = NoCache
    /\ value = << >>
    /\ calls = << >>
    /\ held = << >>
    /\ doneArgs = << >>
    /\ gw = 0

\* lines 72-78: createMioMongoPlugin(settings) moves url to connectionString
CreateMioMongoPlugin ==
    /\ pc = "new"
    /\ plugin' = [plugin EXCEPT
                    !.settings.connectionString = plugin.settings.url \/ @,
                    !.settings.url = FALSE]
    /\ pc' = "made"
    /\ UNCHANGED << method, relAType, relBType, where, withRelated, withCount,
                    ops, ip, wrel, nwhere, mongoQuery, filter, cached, value,
                    calls, held, doneArgs, gw >>

\* a variant of MioMongoPlugin that attaches the settings before it checks
\* them
MioMongoPluginAttachFirst ==
    /\ pc = "made"
    /\ IF ~plugin.settings.collection
       THEN /\ plugin' = [plugin EXCEPT !.mongo = TRUE,
                                        !.error = "must specify a collection name"]
            /\ pc' = "threw"
       ELSE /\ plugin' = [plugin EXCEPT !.mongo = TRUE,
                                        !.listeners = ListenerNames,
                                        !.hooks = HookNames]
            /\ pc' = "attached"
    /\ UNCHANGED << method, relAType, relBType, where, withRelated, withCount,
                    ops, ip, wrel, nwhere, mongoQuery, filter, cached, value,
                    calls, held, doneArgs, gw >>

\* lines 80-121: MioMongoPlugin(Resource)
MioMongoPlugin ==
    /\ pc = "made"
    /\ IF ~plugin.settings.connectionString /\ ~plugin.settings.db
       THEN /\ plugin' = [plugin EXCEPT !.error = "connectionString or db is required"]
            /\ pc' = "threw"
       ELSE IF ~plugin.settings.collection
       THEN /\ plugin' = [plugin EXCEPT !.error = "must specify a collection name"]
            /\ pc' = "threw"
       ELSE /\ plugin' = [plugin EXCEPT
                            !.mongo = TRUE,
                            !.listeners = ListenerNames,
                            !.hooks = HookNames,
                            !.events = Append(@, Event("mongo:initialize", << >>))]
            /\ pc' = "attached"
    /\ UNCHANGED << method, relAType, relBType, where, withRelated, withCount,
                    ops, ip, wrel, nwhere, mongoQuery, filter, cached, value,
                    calls, held, doneArgs, gw >>

\* lines 858-871: the representation create builds from the body
RECURSIVE Representation(_, _)
Representation(keys, body) ==
    IF keys = << >> THEN << >>
    ELSE LET key == Head(keys)
             d   == DefaultOf(key)
             own == IF ~HasProp(body, key)
                    THEN IF d.kind = "function" THEN << Prop(key, d.v) >>
                         ELSE IF d.kind = "static" /\ Truthy(d.v)
                         THEN << Prop(key, Descriptor(key)) >>
                         ELSE << >>
                    ELSE << Prop(key, GetProp(body, key)) >>
         IN  own \o Representation(Tail(keys), body)

\* the document create hands to insert (lines 873-874)
CreateDocument(body) ==
    PrepareQueryOrDocument(Representation(DeclaredKeys, body))

\* lines 853-875: exports.create up to the insert
Create ==
    /\ pc = "attached"
    /\ "post" \in plugin.hooks
    /\ \E body \in Bodies :
         /\ plugin' = [plugin EXCEPT !.body = body]
         /\ IF PrepareThrows(Representation(DeclaredKeys, body), NoAttr)
            THEN /\ pc' = "threw"
                 /\ UNCHANGED << mongoQuery, calls >>
            ELSE /\ mongoQuery' = CreateDocument(body)
                 /\ calls' = Append(calls,
                        StoreCall("insert", << >>, mongoQuery', "w", NoFrom))
                 /\ pc' = "wait"
    /\ method' = "create"
    /\ UNCHANGED << relAType, relBType, where, withRelated, withCount, ops, ip,
                    wrel, nwhere, filter, cached, value, held, doneArgs, gw >>

\* lines 1018-1020: every element of the batch is prepared in place
PrepareBatch(batch) == [i \in 1..Len(batch) |-> PrepareQueryOrDocument(batch[i])]

\* lines 1014-1024: exports.createMany up to the insert
CreateMany ==
    /\ pc = "attached"
    /\ "collection:post" \in plugin.hooks
    /\ \E batch \in Batches :
         /\ plugin' = [plugin EXCEPT !.body = batch]
         /\ IF \E i \in 1..Len(batch) : PrepareThrows(batch[i], NoAttr)
            THEN /\ pc' = "threw"
                 /\ UNCHANGED << mongoQuery, calls >>
            ELSE /\ mongoQuery' = PrepareBatch(batch)
                 /\ calls' = Append(calls,
                        StoreCall("insert", << >>, mongoQuery', "w", NoFrom))
                 /\ pc' = "wait"
    /\ method' = "createMany"
    /\ UNCHANGED << relAType, relBType, where, withRelated, withCount, ops, ip,
                    wrel, nwhere, filter, cached, value, held, doneArgs, gw >>

\* attributes[Resource.primaryKey].alias || Resource.primaryKey (line 903)
PrimaryStorageKey ==
    IF AttributeOf(PrimaryKey).alias # "" THEN AttributeOf(PrimaryKey).alias
    ELSE PrimaryKey

\* lines 901-908: the update document, the primary key's field deleted
UpdateDocument(changes) ==
    << Prop("$set", Obj(DeleteProp(PrepareQueryOrDocument(changes),
                                   PrimaryStorageKey))) >>

\* lines 898-909: exports.update up to the findAndModify
Update ==
    /\ pc = "attached"
    /\ "patch" \in plugin.hooks
    /\ \E w \in PluginWheres, changes \in Bodies :
         /\ plugin' = [plugin EXCEPT !.body = changes]
         /\ where' = w
         /\ IF PrepareThrows(changes, NoAttr) \/ PrepareThrows(w, NoAttr)
            THEN /\ pc' = "threw"
                 /\ UNCHANGED << mongoQuery, calls >>
            ELSE /\ mongoQuery' = PrepareQueryOrDocument(w)
                 /\ calls' = Append(calls,
                        StoreCall("findAndModify", mongoQuery',
                                  UpdateDocument(changes), "new", NoFrom))
                 /\ pc' = "wait"
    /\ method' = "update"
    /\ UNCHANGED << relAType, relBType, withRelated, withCount, ops, ip, wrel,
                    nwhere, filter, cached, value, held, doneArgs, gw >>

\* lines 987-1000: exports.updateMany up to the update: the options are
\* built, the event is emitted, the predicate and the changes are prepared
UpdateMany ==
    /\ pc = "attached"
    /\ "collection:patch" \in plugin.hooks
    /\ \E w \in PluginWheres, changes \in Bodies, l \in QueryListeners :
         LET query == Emitted(l, w)
         IN  /\ where' = w
             /\ plugin' = [plugin EXCEPT
                             !.body = changes,
                             !.events = Append(@, Event("mongodb:query", w)),
                             !.query = query]
             /\ IF PrepareThrows(query.where, NoAttr)
                   \/ PrepareThrows(changes, NoAttr)
                THEN /\ pc' = "threw"
                     /\ UNCHANGED << mongoQuery, calls >>
                ELSE /\ mongoQuery' = PrepareQueryOrDocument(query.where)
                     /\ calls' = Append(calls,
                            StoreCall("update", mongoQuery',
                                      << Prop("$set", Obj(PrepareQueryOrDocument(changes))) >>,
                                      "multi", NoFrom))
                     /\ pc' = "wait"
    /\ method' = "updateMany"
    /\ UNCHANGED << relAType, relBType, withRelated, withCount, ops, ip, wrel,
                    nwhere, filter, cached, value, held, doneArgs, gw >>

\* lines 1061-1067: exports.destroyMany up to the remove: the event is
\* emitted, the predicate is prepared and the options are built
DestroyMany ==
    /\ pc = "attached"
    /\ "collection:delete" \in plugin.hooks
    /\ \E w \in PluginWheres, l \in QueryListeners :
         LET query == Emitted(l, w)
         IN  /\ where' = w
             /\ plugin' = [plugin EXCEPT
                             !.events = Append(@, Event("mongodb:query", w)),
                             !.query = query]
             /\ IF PrepareThrows(query.where, NoAttr)
                THEN /\ pc' = "threw"
                     /\ UNCHANGED << mongoQuery, calls >>
                ELSE /\ mongoQuery' = PrepareQueryOrDocument(query.where)
                     /\ calls' = Append(calls,
                            StoreCall("remove", mongoQuery', << >>, "",
                                      query.from))
                     /\ pc' = "wait"
    /\ method' = "destroyMany"
    /\ UNCHANGED << relAType, relBType, withRelated, withCount, ops, ip, wrel,
                    nwhere, filter, cached, value, held, doneArgs, gw >>

\* lines 451-459 and 559-561 (find), 132-140 and 239-241 (findOne), for a
\* query without relation keys: the predicate is prepared and the options
\* are built, the event is emitted, the primary query is the first store
\* call
FindOpening ==
    /\ pc = "attached"
    /\ \E m \in {"find", "findOne"}, w \in PluginWheres, l \in QueryListeners :
         /\ method' = m
         /\ (IF m = "find" THEN "collection:get" ELSE "get") \in plugin.hooks
         /\ where' = w
         /\ IF PrepareThrows(w, NoAttr)
            THEN /\ pc' = "threw"
                 /\ UNCHANGED << mongoQuery, calls, plugin >>
            ELSE /\ mongoQuery' = PrepareQueryOrDocument(w)
                 /\ plugin' = [plugin EXCEPT
                                 !.events = Append(@, Event("mongodb:query", w)),
                                 !.query = Emitted(l, w)]
                 /\ calls' = Append(calls,
                        StoreCall(m, mongoQuery', << >>, "", NoFrom))
                 /\ pc' = "wait"
    /\ UNCHANGED << relAType, relBType, withRelated, withCount, ops, ip, wrel,
                    nwhere, filter, cached, value, held, doneArgs, gw >>

\* the callbacks of lines 876-886, 910-920, 1001-1003, 1025-1035, 1067-1069
\* and the primary callbacks of find and findOne: the error is passed on, or
\* the resource is reset from the document the store returns (here the
\* document it was sent)
StoreCallback ==
    /\ pc = "wait"
    /\ \/ /\ calls' = [calls EXCEPT ![Len(calls)].status = "err"]
          /\ doneArgs' = Append(doneArgs, [err |-> TRUE, val |-> << >>])
          /\ UNCHANGED value
       \/ /\ calls' = [calls EXCEPT ![Len(calls)].status = "ok"]
          /\ value' =
               CASE method = "create" -> PrepareResource(calls[1].doc)
                 [] method = "update" -> PrepareResource(calls[1].doc[1].v.kids)
                 [] method = "createMany" ->
                        [i \in 1..Len(calls[1].doc) |-> PrepareResource(calls[1].doc[i])]
                 [] OTHER -> << >>
          /\ doneArgs' = Append(doneArgs, [err |-> FALSE, val |-> value'])
    /\ pc' = "done"
    /\ UNCHANGED << method, relAType, relBType, where, withRelated, withCount,
                    ops, ip, wrel, nwhere, mongoQuery, filter, cached, held,
                    gw, plugin >>

NextPlugin ==
    \/ CreateMioMongoPlugin
    \/ MioMongoPlugin
    \/ Create
    \/ CreateMany
    \/ Update
    \/ UpdateMany
    \/ DestroyMany
    \/ FindOpening
    \/ StoreCallback

SpecPlugin == InitPlugin /\ [][NextPlugin]_vars

----------------------------------------------------------------------------
(* Properties of the plugin (SpecPlugin).                                  *)

\* C24: create persists only declared attributes that are neither
\* relation-typed nor transient: every key of the document passed to insert
\* is such an attribute (under its storage name), and every such key of the
\* body is persisted with the body's value (an identifier string as the
\* native identifier).
C24_PersistDeclaredOnly ==
    (method = "create" /\ pc # "attached") =>
        LET Persistable(k) ==
                /\ AttributeOf(k).def
                /\ ~AttributeOf(k).relation
                /\ ~AttributeOf(k).transient
            StorageName(k) ==
                IF AttributeOf(k).alias # "" THEN AttributeOf(k).alias ELSE k
        IN  /\ Len(calls) = 1
            /\ calls[1].verb = "insert"
            /\ \A j \in 1..Len(calls[1].doc) :
                   \E n \in 1..Len(DeclaredKeys) :
                       /\ Persistable(DeclaredKeys[n])
                       /\ calls[1].doc[j].k = StorageName(DeclaredKeys[n])
            /\ \A i \in 1..Len(plugin.body) :
                   Persistable(plugin.body[i].k) =>
                       \E j \in 1..Len(calls[1].doc) :
                           /\ calls[1].doc[j].k = StorageName(plugin.body[i].k)
                           /\ calls[1].doc[j].v =
                                  IF /\ AttributeOf(plugin.body[i].k).objectId
                                     /\ plugin.body[i].v.t = "str"
                                  THEN Oid(plugin.body[i].v.s)
                                  ELSE plugin.body[i].v

\* C25: for every attribute that declares a default and is omitted from
\* the body, the document create passes to insert holds the default value
\* under that attribute: the declared value for a static default, falsy
\* ones included, and the function's return value for a computed one.
C25_DefaultsApplied ==
    (method = "create" /\ pc \in {"wait", "done"}) =>
        \A n \in 1..Len(DeclaredKeys) :
            (/\ DefaultOf(DeclaredKeys[n]).kind # "none"
             /\ ~HasProp(plugin.body, DeclaredKeys[n])) =>
                \E j \in 1..Len(calls[1].doc) :
                    calls[1].doc[j] =
                        Prop(DeclaredKeys[n], DefaultOf(DeclaredKeys[n]).v)

\* C26: createMany issues one insert for the whole batch, and each element
\* it passes to insert is the document create would persist for that body
\* alone.
C26_BatchAsCreate ==
    (method = "createMany" /\ pc \in {"wait", "done"}) =>
        /\ Len(calls) = 1
        /\ calls[1].verb = "insert"
        /\ Len(calls[1].doc) = Len(plugin.body)
        /\ \A i \in 1..Len(plugin.body) :
               calls[1].doc[i] = CreateDocument(plugin.body[i])

\* C27: update issues exactly one findAndModify: it carries the transcoded
\* predicate, the update document {$set: c} where c has no field under the
\* primary key's storage name, and the return-new-document option; on
\* success the resource is reset from the returned document.
C27_UpdateOnce ==
    (method = "update" /\ pc # "attached") =>
        /\ Len(calls) = 1
        /\ calls[1].verb = "findAndModify"
        /\ calls[1].q = PrepareQueryOrDocument(where)
        /\ Len(calls[1].doc) = 1
        /\ calls[1].doc[1].k = "$set"
        /\ ~HasProp(calls[1].doc[1].v.kids, PrimaryStorageKey)
        /\ calls[1].options = "new"
        /\ (pc = "done" /\ calls[1].status = "ok") =>
               value = PrepareResource(calls[1].doc[1].v.kids)

C30_QueryEventOnce ==
    (method \in {"find", "findOne", "updateMany", "destroyMany"}
        /\ pc # "attached") =>
        LET emitted == SelectSeq(plugin.events,
                                 LAMBDA e : e.name = "mongodb:query")
        IN  /\ Len(emitted) = 1
            /\ emitted[1].query = where
            /\ emitted[1].calls = 0

\* C31: a change a listener on 'mongodb:query' makes to the query's where
\* clause or to its paging during the event is reflected in the predicate
\* and the options of the store call that follows, in find, findOne,
\* updateMany and destroyMany.
C31_ListenerTransforms ==
    (method \in {"find", "findOne", "updateMany", "destroyMany"}
        /\ pc \in {"wait", "done"}) =>
        /\ calls[1].q = PrepareQueryOrDocument(plugin.query.where)
        /\ calls[1].skip = plugin.query.from

\* C39: the update document update and updateMany send to the store never
\* holds the primary key's storage field, whatever the changes contain.
C39_IdentityImmutable ==
    (method \in {"update", "updateMany"} /\ pc \in {"wait", "done"}) =>
        /\ calls[1].doc[1].k = "$set"
        /\ ~HasProp(calls[1].doc[1].v.kids, PrimaryStorageKey)

----------------------------------------------------------------------------
(* buildQueryOptions.  plugin holds the query's JSON (sort, from, size,    *)
(* withCount) and the options built from it; a property that is not set is *)
(* Undef.                                                                  *)

\* the largest number of sort keys of a query
MaxSort == 2

Undef == [t |-> "undefined", s |-> "", kids |-> << >>]

\* strings that Number() reads as a number
NumericStrings == {"-1", "0", "1", "2", "25"}

\* Number(v) for a string or a number
NumberOf(v) ==
    IF v.t = "num" THEN v
    ELSE IF v.t = "str" /\ v.s \in NumericStrings THEN Num(v.s)
    ELSE IF v.t = "str" /\ v.s = "" THEN Num("0")
    ELSE Num("NaN")

SortKeys == {"name", "createdAt", "id"}

SortValues ==
    { Str("desc"), Str("asc"), Str(""), Str("-1"), Str("1"), Num("-1"),
      Num("1") }

Sorts ==
    { srt \in UNION { [1..n -> { Prop(k, v) : k \in SortKeys, v \in SortValues }]
                        : n \in 0..MaxSort } :
        \A i, j \in 1..Len(srt) : i # j => srt[i].k # srt[j].k }

\* from and size as the query's JSON holds them
PagingValues == { Undef, Num("0"), Str("2") }

Queries ==
    [sort : Sorts, from : PagingValues, size : PagingValues,
     withCount : BOOLEAN]

NoOptions == [built |-> FALSE, sort |-> << >>, skip |-> Undef, limit |-> Undef,
              withCount |-> FALSE]

InitOptions ==
    /\ plugin \in { [query |-> q, options |-> NoOptions] : q \in Queries }
    /\ method = ""
    /\ relAType = "belongsTo"
    /\ relBType = "belongsTo"
    /\ where = << >>
    /\ withRelated = << >>
    /\ withCount = FALSE
    /\ pc = "query"
    /\ ops = << >>
    /\ ip = 0
    /\ wrel = << >>
    /\ nwhere = << >>
    /\ mongoQuery = << >>
    /\ filter = EmptyObj
    /\ cached = NoCache
    /\ value = << >>
    /\ calls = << >>
    /\ held = << >>
    /\ doneArgs = << >>
    /\ gw = 0

\* a variant of SortOption that sorts every string ascending
SortOptionAscending(sortVal) ==
    IF sortVal.t = "str" THEN Num("1") ELSE sortVal

\* lines 1241-1247: the storage value of one sort value
SortOption(sortVal) ==
    IF sortVal.t = "str"
    THEN (IF sortVal.s = "desc" THEN Num("-1") ELSE Num("1"))
    ELSE sortVal

\* JavaScript truthiness of from and size (lines 1251 and 1253)
TruthyPaging(v) == v.t # "undefined" /\ Truthy(v)

\* lines 1233-1261: the options built from the query's JSON
QueryOptions(q) ==
    [built |-> TRUE,
     sort |-> [i \in 1..Len(q.sort) |-> Prop(q.sort[i].k, SortOption(q.sort[i].v))],
     skip |-> NumberOf(IF TruthyPaging(q.from) THEN q.from ELSE Num("0")),
     limit |-> IF TruthyPaging(q.size) THEN NumberOf(q.size) ELSE Undef,
     withCount |-> q.withCount]

\* lines 1226-1262: buildQueryOptions(query)
BuildQueryOptions ==
    /\ pc = "query"
    /\ plugin' = [plugin EXCEPT !.options = QueryOptions(plugin.query)]
    /\ pc' = "options"
    /\ UNCHANGED << method, relAType, relBType, where, withRelated, withCount,
                    ops, ip, wrel, nwhere, mongoQuery, filter, cached, value,
                    calls, held, doneArgs, gw >>

NextOptions == BuildQueryOptions

SpecOptions == InitOptions /\ [][NextOptions]_vars

\* C32: buildQueryOptions maps a sort value that is the string 'desc' to
\* -1, any other non-numeric string to 1, and leaves a number unchanged;
\* the options keep the sort keys in their order.
C32_SortDirections ==
    (pc = "options") =>
        /\ Len(plugin.options.sort) = Len(plugin.query.sort)
        /\ \A i \in 1..Len(plugin.query.sort) :
               LET sortVal == plugin.query.sort[i].v
                   out     == plugin.options.sort[i]
               IN  /\ out.k = plugin.query.sort[i].k
                   /\ (sortVal = Str("desc")) => out.v = Num("-1")
                   /\ (sortVal.t = "str" /\ sortVal.s # "desc"
                         /\ sortVal.s \notin NumericStrings) => out.v = Num("1")
                   /\ (sortVal.t = "num") => out.v = sortVal

\* the options of {name: 'desc', createdAt: 'asc'} have been built
C32_Witness ==
    /\ pc = "options"
    /\ plugin.query.sort = << Prop("name", Str("desc")),
                              Prop("createdAt", Str("asc")) >>
    /\ plugin.options.sort = << Prop("name", Num("-1")),
                                Prop("createdAt", Num("1")) >>

\* C33: buildQueryOptions turns a sort value other than 'desc' that is a
\* numeric string or a number into that number: '-1' yields -1, '1' yields 1.
C33_NumericSort ==
    (pc = "options") =>
        \A i \in 1..Len(plugin.query.sort) :
            LET sortVal == plugin.query.sort[i].v
            IN  (sortVal.t = "num"
                    \/ (sortVal.t = "str" /\ sortVal.s \in NumericStrings)) =>
                    plugin.options.sort[i].v = NumberOf(sortVal)

----------------------------------------------------------------------------
(* Nested-through resolution over every small store.  The operation of a   *)
(* nested relation b starts with the primary resources in value, their     *)
(* relation a stitched; held is the nested target's collection.  The ids   *)
(* of the three collections may coincide.                                  *)

\* the largest number of documents of the nested target's collection
MaxThrough == 2

ThroughT1 == Doc("1", "1", Undefined, "u1", "tx")
ThroughT2 == Doc("2", "1", Undefined, "u1", "ty")
ThroughT3 == Doc("3", "2", Undefined, "u2", "tz")

\* a primary resource whose relation a holds the collection of ts
Stitched(id, ts) ==
    [doc |-> Doc(id, Undefined, Undefined, Undefined, "n1"),
     a   |-> ManySlot([j \in 1..Len(ts) |-> Related(ts[j])])]

\* the primary resources a find holds when the operation starts
ThroughFound ==
    { << Stitched("1", << ThroughT1, ThroughT2 >>) >>,
      << Stitched("1", << ThroughT1 >>), Stitched("2", << ThroughT3 >>) >>,
      << Stitched("1", << ThroughT1, ThroughT2 >>),
         Stitched("2", << ThroughT3 >>) >> }

\* the primary resource a findOne holds
ThroughFoundOne ==
    { << Stitched("1", << ThroughT1 >>) >>,
      << Stitched("1", << ThroughT1, ThroughT2 >>) >> }

ThroughDocs ==
    { Doc("u1", Undefined, "1", Undefined, "alex"),
      Doc("u2", Undefined, "2", Undefined, "bob"),
      Doc("u3", Undefined, "1", Undefined, "carl") }

ThroughCollections ==
    { c \in UNION { [1..n -> ThroughDocs] : n \in 0..MaxThrough } :
        \A i, j \in 1..Len(c) : i # j => c[i] # c[j] }

InitThrough ==
    /\ method \in {"find", "findOne"}
    /\ relAType = "hasMany"
    /\ relBType \in RelTypes
    /\ where = << >>
    /\ withRelated \in
         { << Include("a", 0, 0, TRUE, pg[1], pg[2]) >> :
             pg \in { << 0, 0 >>, << 0, 1 >>, << 1, 2 >> } }
    /\ withCount = FALSE
    /\ pc = "run"
    /\ ops = << Op("through", 0, 1) >>
    /\ ip = 1
    /\ wrel = << >>
    /\ nwhere = << >>
    /\ mongoQuery = EmptyObj
    /\ filter = EmptyObj
    /\ cached = NoCache
    /\ value \in { Value(rs) : rs \in IF method = "find" THEN ThroughFound
                                      ELSE ThroughFoundOne }
    /\ calls = << >>
    /\ held \in ThroughCollections
    /\ doneArgs = << >>
    /\ gw = 0
    /\ plugin = 0

\* the documents of the collection held that the nested query matches
ThroughFetched == SelectSeq(held, LAMBDA d : Matches(d, calls[Len(calls)].q))

\* lines 781-835 (find), 382-432 (findOne): the callback of the nested
\* query, the store holding the collection held
ThroughCallback ==
    /\ pc = "wait"
    /\ ops[ip].type = "through"
    /\ \/ /\ Fail
          /\ UNCHANGED << ip, value >>
       \/ LET docs == ThroughFetched
              refs == RefsOf(value.rs, 1, 1)
              opts == withRelated[ops[ip].r]
              r    == AttachAll(value.rs, refs, docs, 1)
          IN  IF r.ok
              THEN /\ value' = [value EXCEPT !.rs =
                                   IF relBType = "hasMany" /\ opts.nsize # 0
                                   THEN WindowAll(r.rs, refs, docs, opts.nfrom, opts.nsize)
                                   ELSE r.rs]
                   /\ Advance(value')
              ELSE /\ value' = [value EXCEPT !.rs = r.rs]
                   /\ pc' = "threw"
                   /\ calls' = [calls EXCEPT ![Len(calls)].status = "ok"]
                   /\ UNCHANGED << ip, doneArgs >>
    /\ UNCHANGED << method, relAType, relBType, where, withRelated, withCount,
                    ops, wrel, nwhere, mongoQuery, filter, cached, held, gw, plugin >>

NextThrough ==
    \/ Through
    \/ ThroughCallback

SpecThrough == InitThrough /\ [][NextThrough]_vars

\* C34: for a nested hasMany relation asked with from and size, every
\* intermediate entity's through collection ends as one slice(from, size) of
\* the list stitched for it, however many documents the nested query
\* returned, and the nested query carries no skip and no limit.
C34_ThroughWindowOnce ==
    LET opts == withRelated[1]
        \* the resources as they were before the nested query returned
        bare == [i \in 1..Len(value.rs) |->
                    [value.rs[i] EXCEPT !.a.docs =
                        [j \in 1..Len(value.rs[i].a.docs) |->
                            Related(value.rs[i].a.docs[j].doc)]]]
        full == AttachAll(bare, RefsOf(bare, 1, 1), ThroughFetched, 1)
    IN  (/\ relBType = "hasMany"
         /\ opts.nsize # 0
         /\ Len(calls) > 0
         /\ calls[Len(calls)].status = "ok"
         /\ pc = "done") =>
            /\ calls[Len(calls)].skip = 0
            /\ calls[Len(calls)].limit = 0
            /\ full.ok
            /\ \A i \in 1..Len(value.rs) :
                   \A j \in 1..Len(value.rs[i].a.docs) :
                       value.rs[i].a.docs[j].b.docs =
                           Slice(full.rs[i].a.docs[j].b.docs,
                                 opts.nfrom, opts.nsize)

\* C35: after the nested query returned, every intermediate entity has each
\* fetched document its join key matches attached to its through
\* attribute: for hasMany all of them, in a collection, otherwise one of
\* them; and the resolution has not thrown.
C35_ThroughAttached ==
    (/\ Len(calls) > 0
     /\ calls[Len(calls)].status = "ok"
     /\ withRelated[1].nsize = 0) =>
        /\ pc = "done"
        /\ \A i \in 1..Len(value.rs) :
               \A j \in 1..Len(value.rs[i].a.docs) :
                   LET thr   == value.rs[i].a.docs[j]
                       match == SelectSeq(ThroughFetched,
                                    LAMBDA d : ThroughDocKey(d) =
                                               ThroughKey(value.rs[i], thr))
                   IN  match # << >> =>
                           /\ thr.b.set
                           /\ IF relBType = "hasMany"
                              THEN thr.b.many /\ thr.b.docs = match
                              ELSE \E n \in 1..Len(match) :
                                       thr.b.docs = << match[n] >>

----------------------------------------------------------------------------
(* The gateway: mongoExec.  MaxCalls store calls are made on resources     *)
(* that share one settings object; gw holds settings.db,                   *)
(* settings.dbCollection and the progress of every call.                   *)

MaxCalls == 2

CallIds == 1..MaxCalls

\* the driver methods the store operations go through (lines 46-50, 873-1064)
Verbs == {"find", "findOne", "insert", "update", "findAndModify", "remove"}

ConnectErr == "connect error"
VerbErr == "verb error"

\* a store call not yet made
IdleCall ==
    [pc |-> "idle", method |-> "find", withCount |-> FALSE,
     connects |-> 0, runs |-> 0, counts |-> 0, cb |-> << >>]

InitGateway ==
    /\ gw \in { [db |-> d, dbCollection |-> FALSE,
                 call |-> [c \in CallIds |-> IdleCall]] : d \in BOOLEAN }
    /\ method = "find"
    /\ relAType = "belongsTo"
    /\ relBType = "belongsTo"
    /\ where = << >>
    /\ withRelated = << >>
    /\ withCount = FALSE
    /\ pc = "idle"
    /\ ops = << >>
    /\ ip = 0
    /\ wrel = << >>
    /\ nwhere = << >>
    /\ mongoQuery = EmptyObj
    /\ filter = EmptyObj
    /\ cached = NoCache
    /\ value = NullValue
    /\ calls = << >>
    /\ held = << >>
    /\ doneArgs = << >>
    /\ plugin = 0

\* lines 1109-1141: MioMongoExec invokes the driver method on
\* settings.dbCollection
MioMongoExec(g, c) ==
    [g EXCEPT !.call[c].runs = @ + 1, !.call[c].pc = "verb"]

\* a variant of MongoExec that runs the verb without a connection
MongoExecNoWait(c) ==
    /\ gw.call[c].pc = "idle"
    /\ \E m \in Verbs, wc \in BOOLEAN :
         /\ wc => m = "find"
         /\ gw' = MioMongoExec([gw EXCEPT !.call[c].method = m,
                                          !.call[c].withCount = wc], c)
    /\ UNCHANGED plannerVars

\* lines 1081-1107: mongoExec(Resource, method)(args..., cb)
MongoExec(c) ==
    /\ gw.call[c].pc = "idle"
    /\ \E m \in Verbs, wc \in BOOLEAN :
         /\ wc => m = "find"
         /\ LET g == [gw EXCEPT !.call[c].method = m, !.call[c].withCount = wc]
            IN  IF gw.db
                THEN gw' = MioMongoExec([g EXCEPT !.dbCollection = TRUE], c)
                ELSE gw' = [g EXCEPT !.call[c].connects = @ + 1,
                                     !.call[c].pc = "connecting"]
    /\ UNCHANGED plannerVars

\* lines 1099-1105: the connect callback without an error
ConnectSuccess(c) ==
    /\ gw.call[c].pc = "connecting"
    /\ gw' = MioMongoExec([gw EXCEPT !.db = TRUE, !.dbCollection = TRUE], c)
    /\ UNCHANGED plannerVars

\* a variant of ConnectError that caches handles although connect failed
ConnectErrorCaches(c) ==
    /\ gw.call[c].pc = "connecting"
    /\ gw' = [gw EXCEPT !.db = TRUE, !.dbCollection = TRUE,
                        !.call[c].pc = "done",
                        !.call[c].cb = Append(@, [err |-> ConnectErr])]
    /\ UNCHANGED plannerVars

\* line 1100: the connect callback with an error
ConnectError(c) ==
    /\ gw.call[c].pc = "connecting"
    /\ gw' = [gw EXCEPT !.call[c].pc = "done",
                        !.call[c].cb = Append(@, [err |-> ConnectErr])]
    /\ UNCHANGED plannerVars

\* lines 1123-1137 (toArray's callback of a find) and line 1139 (the driver
\* calls cb itself for the other methods)
VerbCallback(c) ==
    /\ gw.call[c].pc = "verb"
    /\ \/ gw' = [gw EXCEPT !.call[c].pc = "done",
                           !.call[c].cb = Append(@, [err |-> VerbErr])]
       \/ IF gw.call[c].method = "find" /\ gw.call[c].withCount
          THEN gw' = [gw EXCEPT !.call[c].pc = "count",
                                !.call[c].counts = @ + 1]
          ELSE gw' = [gw EXCEPT !.call[c].pc = "done",
                                !.call[c].cb = Append(@, [err |-> Null])]
    /\ UNCHANGED plannerVars

\* lines 1127-1133: the callback of count
CountCallback(c) ==
    /\ gw.call[c].pc = "count"
    /\ \E e \in {VerbErr, Null} :
         gw' = [gw EXCEPT !.call[c].pc = "done",
                          !.call[c].cb = Append(@, [err |-> e])]
    /\ UNCHANGED plannerVars

NextGateway ==
    \/ \E c \in CallIds : MongoExec(c)
    \/ \E c \in CallIds : ConnectSuccess(c)
    \/ \E c \in CallIds : ConnectError(c)
    \/ \E c \in CallIds : VerbCallback(c)
    \/ \E c \in CallIds : CountCallback(c)

SpecGateway == InitGateway /\ [][NextGateway]_vars

----------------------------------------------------------------------------
(* Properties of the gateway (SpecGateway).                                *)

\* C6: for resources that share one settings object with no
\* pre-established db, a caller arriving while a connect is in flight does
\* not open another connection: the store calls started before the first
\* connect has resolved cause at most one connect.
C6_OneConnect ==
    \A c, d \in CallIds :
        (gw.call[c].pc = "connecting" /\ gw.call[d].pc = "connecting") => c = d

\* C7: no store verb is invoked before connect has succeeded and the
\* collection handle is cached, and every call made before a connection
\* exists has its store verb executed exactly once after the connect
\* succeeds.
C7_ConnectThenExecute ==
    \A c \in CallIds :
        LET k == gw.call[c]
        IN  /\ (k.runs > 0 \/ k.counts > 0) => (gw.db /\ gw.dbCollection)
            /\ k.pc \in {"idle", "connecting"} => k.runs = 0
            /\ k.pc \in {"verb", "count"} => k.runs = 1
            /\ k.pc = "done" => (k.runs = 1 \/ k.cb = << [err |-> ConnectErr] >>)

\* a call made with no connection has connected, run its verb once and
\* called back without an error
C7_Witness ==
    \E c \in CallIds :
        /\ gw.call[c].connects = 1
        /\ gw.call[c].runs = 1
        /\ gw.call[c].pc = "done"
        /\ gw.call[c].cb = << [err |-> Null] >>

----------------------------------------------------------------------------
(* The poll gateway of the older module (src/unnamed/part_001): connect    *)
(* with the flags connected and connecting kept on the shared client.  gw  *)
(* holds the flags, the caller whose connect is in flight (by) and the     *)
(* progress of every caller; saw is the caller whose connect was in flight *)
(* when the caller first found one in progress.                            *)

\* the largest number of callers of the poll gateway
MaxPollers == 3

Pollers == 1..MaxPollers

LegacyIdle ==
    [pc |-> "idle", waited |-> FALSE, saw |-> 0, connects |-> 0, runs |-> 0,
     err |-> FALSE]

InitLegacy ==
    /\ gw = [connected |-> FALSE, connecting |-> FALSE, by |-> 0,
             call |-> [c \in Pollers |-> LegacyIdle]]
    /\ method = "find"
    /\ relAType = "belongsTo"
    /\ relBType = "belongsTo"
    /\ where = << >>
    /\ withRelated = << >>
    /\ withCount = FALSE
    /\ pc = "idle"
    /\ ops = << >>
    /\ ip = 0
    /\ wrel = << >>
    /\ nwhere = << >>
    /\ mongoQuery = EmptyObj
    /\ filter = EmptyObj
    /\ cached = NoCache
    /\ value = NullValue
    /\ calls = << >>
    /\ held = << >>
    /\ doneArgs = << >>
    /\ plugin = 0

\* part_001 lines 325-356: connect(Resource, done) up to the driver's
\* connect: done is called, a timer is set, or mongo.connect is called
LegacyConnect(g, c) ==
    IF g.connected
    THEN [g EXCEPT !.call[c].runs = @ + 1, !.call[c].pc = "done"]
    ELSE IF g.connecting
    THEN [g EXCEPT !.call[c].pc = "polling",
                   !.call[c].waited = TRUE,
                   !.call[c].saw = IF @ = 0 THEN g.by ELSE @]
    ELSE [g EXCEPT !.connecting = TRUE, !.by = c,
                   !.call[c].connects = @ + 1,
                   !.call[c].pc = "connecting"]

\* part_001 lines 305-316: the handler made by createEventHandler
EventHandler(c) ==
    /\ gw.call[c].pc = "idle"
    /\ gw' = LegacyConnect(gw, c)
    /\ UNCHANGED plannerVars

\* part_001 lines 332-335: the timer set by a caller that found a connect
\* in progress fires
Poll(c) ==
    /\ gw.call[c].pc = "polling"
    /\ gw' = LegacyConnect(gw, c)
    /\ UNCHANGED plannerVars

\* part_001 lines 339-354: the callback of mongo.connect without an error
LegacyConnectSuccess(c) ==
    /\ gw.call[c].pc = "connecting"
    /\ gw' = [gw EXCEPT !.connecting = FALSE, !.connected = TRUE,
                        !.call[c].runs = @ + 1, !.call[c].pc = "done"]
    /\ UNCHANGED plannerVars

\* part_001 lines 339-344: the callback of mongo.connect with an error
LegacyConnectError(c) ==
    /\ gw.call[c].pc = "connecting"
    /\ gw' = [gw EXCEPT !.connecting = FALSE,
                        !.call[c].err = TRUE, !.call[c].pc = "done"]
    /\ UNCHANGED plannerVars

\* part_001 lines 350-352: the connection's 'close' event
LegacyClose ==
    /\ gw.connected
    /\ gw' = [gw EXCEPT !.connected = FALSE]
    /\ UNCHANGED plannerVars

NextLegacy ==
    \/ \E c \in Pollers : EventHandler(c)
    \/ \E c \in Pollers : Poll(c)
    \/ \E c \in Pollers : LegacyConnectSuccess(c)
    \/ \E c \in Pollers : LegacyConnectError(c)
    \/ LegacyClose

SpecLegacy == InitLegacy /\ [][NextLegacy]_vars

\* C37: in the poll gateway a caller that found a connect in progress
\* never calls the driver's connect itself, and once the connect it found
\* in flight has succeeded the caller, when it is through, has run its
\* store operation exactly once.
C37_PollerRunsOnce ==
    \A c \in Pollers :
        LET k == gw.call[c]
        IN  k.waited =>
                /\ k.connects = 0
                /\ (/\ k.pc = "done"
                    /\ gw.call[k.saw].pc = "done"
                    /\ ~gw.call[k.saw].err) => (k.runs = 1 /\ ~k.err)

====
